---- MODULE Spec2Model ----
(***************************************************************************)
(* A model of the otun reverse tunnel (bc183/otun).                        *)
(*                                                                         *)
(*  - the edge: the registry of tunnels, the handler goroutine of each     *)
(*    control connection (handleTunnelClient / handleControlStream /       *)
(*    removeClient) and the handler of each public request (ServeHTTP);    *)
(*  - the splice: proxy.Bidirectional with its two copy goroutines.        *)
(*                                                                         *)
(* Strings the code inspects character by character (hosts, subdomains)    *)
(* are sequences of one-character strings; opaque strings (tokens, message *)
(* tags) are TLA+ strings.                                                 *)
(***************************************************************************)
EXTENDS Integers, Sequences, FiniteSets, TLC

\* ------------------------------------------------------------------ bounds
NumConns == 2            \* control connections the edge accepts
NumReqs == 2             \* public requests the edge serves
MaxTicks == 4            \* clock ticks, each of HeartbeatInterval seconds
MaxBytes == 2            \* bytes a peer writes into one end of a splice
MaxErrs == 3             \* errors handed to firstError
MaxAttempts == 6         \* calls of NextDelay without a Reset
RandDen == 2             \* the random number of the jitter, in RandDen-ths
MaxDials == 4            \* connection attempts of one RunWithReconnect
MaxStreams == 2          \* data streams accepted in one attempt
MaxRetriesBound == 3     \* the largest MaxRetries configured
MaxWrap == 3             \* wrappings of an error handed to isPermanentError
MaxMsgs == 2             \* values written to one direction of a control stream
MaxHostLen == 5          \* characters of a host handed to extractSubdomain
MaxStreamLen == 4        \* bytes the edge writes on one data stream
BufioSize == 2           \* bytes the bufio.Reader of a stream handler holds
MaxAccepts == 6          \* Accept calls that are told apart

\* ------------------------------------------------------- program constants
HeartbeatTimeout == 90   \* seconds
HeartbeatInterval == 30  \* seconds

StatusBadRequest == 400
StatusNotFound == 404
StatusBadGateway == 502
StatusInternalServerError == 500

Conns == 1..NumConns
Reqs == 1..NumReqs
NoClient == 0            \* the nil *tunnelClient

\* ------------------------------------------------------------ the strings
EmptyStr == <<>>

SubA == <<"a">>
\* an outcome of generateSubdomain: 8 hexadecimal characters
SubG == <<"0", "0", "c", "0", "f", "f", "e", "e">>
\* a requested subdomain outside the grammar: an upper-case letter and a dot
SubBad == <<"A", ".">>
\* subdomains an agent asks for (a reconnecting agent asks for the generated
\* one it was assigned), and the keys the registry can hold
Subdomains == {SubA, SubG, SubBad}
\* generateSubdomain: 4 random bytes, hex-encoded
generateSubdomain == {SubG}

\* Host headers of public requests
Hosts ==
    { SubA \o <<".", "t", ":", "8">>,   \* a.t:8
      SubG \o <<".", "t">>,            \* 00c0ffee.t
      <<"t", ":", "8">> }              \* t:8     (no subdomain)

\* strings.Count(host, ch)
RECURSIVE Count(_, _)
Count(s, ch) ==
    IF s = <<>> THEN 0
    ELSE (IF Head(s) = ch THEN 1 ELSE 0) + Count(Tail(s), ch)

\* strings.LastIndex(host, ch), 1-based; 0 when absent (Go: -1)
LastIndex(s, ch) ==
    IF \E i \in 1..Len(s) : s[i] = ch
    THEN CHOOSE i \in 1..Len(s) : s[i] = ch /\ \A j \in (i+1)..Len(s) : s[j] # ch
    ELSE 0

\* strings.Split(host, sep): the parts, at least one
RECURSIVE Split(_, _)
Split(s, sep) ==
    IF \E i \in 1..Len(s) : s[i] = sep
    THEN LET i == CHOOSE k \in 1..Len(s) : s[k] = sep /\ \A j \in 1..(k-1) : s[j] # sep
         IN <<SubSeq(s, 1, i - 1)>> \o Split(SubSeq(s, i + 1, Len(s)), sep)
    ELSE <<s>>

\* strings.Split(host, ".")[0] without the check of len(parts)
extractSubdomainNoLenCheck(host) ==
    LET cut == IF LastIndex(host, ":") # 0 /\ Count(host, ":") = 1
               THEN SubSeq(host, 1, LastIndex(host, ":") - 1)
               ELSE host
    IN Split(cut, ".")[1]

\* a port cut that does not count the colons
stripPortAnyColon(host) ==
    IF LastIndex(host, ":") # 0
    THEN SubSeq(host, 1, LastIndex(host, ":") - 1)
    ELSE host

\* extractSubdomain, first half: the port is cut off a host with one colon
stripPort(host) ==
    IF LastIndex(host, ":") # 0 /\ Count(host, ":") = 1
    THEN SubSeq(host, 1, LastIndex(host, ":") - 1)
    ELSE host

\* extractSubdomain: the leftmost label of a host with at least two labels
extractSubdomain(host) ==
    LET parts == Split(stripPort(host), ".")
    IN IF Len(parts) < 2 THEN EmptyStr ELSE parts[1]

\* ----------------------------------------------------- control messages
TypeRegister == "register"
TypeRegistered == "registered"
TypeHeartbeat == "heartbeat"
TypeHeartbeatAck == "heartbeat_ack"
TypeError == "error"
KnownTypes == {TypeRegister, TypeRegistered, TypeHeartbeat, TypeHeartbeatAck, TypeError}

\* register.token as agents send it ("" when absent), and the key lists the
\* edge is started with
Tokens == {"", "k1", "k2"}
KeyConfigs == { {}, {"k1"}, {"k1", "k2"} }
NoToken == "none"          \* no register message read

Msg(t, sd, tok) == [type |-> t, subdomain |-> sd, token |-> tok]

RegisterMsgs == { Msg(TypeRegister, sd, tok) : sd \in Subdomains \cup {EmptyStr}, tok \in Tokens }
\* what an agent may put on the control channel: the five variants and a
\* value whose type tag is unknown
WireMsgs ==
    RegisterMsgs
    \cup { Msg(t, EmptyStr, "") : t \in {TypeRegistered, TypeHeartbeat, TypeHeartbeatAck, TypeError, "bogus"} }

\* ReadMessage: the message, or an error for an unknown type tag
ReadMessageFails(m) == m.type \notin KnownTypes

\* replies of the edge on the control channel
ErrRead == "failed to read register message"
ErrExpected == "expected register message"
ErrAuth == "invalid or missing API key"
ErrInUse == "subdomain is already in use"
NoReply == "none"

VARIABLES
    apiKeys,        \* Server.apiKeys: the configured keys
    mu,             \* Server.mu: the connection whose handler holds the write lock, or 0
    clients,        \* Server.clients: subdomain -> connection of the tunnel, or NoClient
    hpc,            \* position of the handler goroutine of each control connection
    sub,            \* the handler's local `subdomain`
    token,          \* registerMsg.Token of the register message the handler read
    sess,           \* yamux session of the connection: "none", "open", "closed"
    reply,          \* first message the handler sent on the control stream
    delivered,      \* whether that send succeeded
    lastHeartbeat,  \* tunnelClient.lastHeartbeat, in ticks
    now,            \* the clock, in ticks
    req             \* the public requests

edgeVars == <<apiKeys, mu, clients, hpc, sub, token, sess, reply, delivered,
              lastHeartbeat, now, req>>
ctlVars == <<apiKeys, mu, clients, hpc, sub, token, sess, reply, delivered,
             lastHeartbeat>>

\* proxy.Bidirectional(conn1, conn2): the two connections, the copy goroutine
\* of each direction (direction d copies from conn d to the other one) and
\* the calling goroutine
VARIABLES
    hc,             \* whether the connection implements halfCloser
    pin,            \* bytes the peer behind the connection has written to it
    pend,           \* how reads of it end: ReadOpen, ReadEOF, or the read error
    wfail,          \* whether writes to it fail
    rpos,           \* bytes of pin the copy goroutine has read
    pout,           \* bytes written to it by the splice
    cw,             \* CloseWrite was called on it
    closed,         \* Close was called on it
    gpc,            \* position of each copy goroutine
    buf,            \* the chunk a copy goroutine has read and not yet written
    cerr,           \* err1, err2: what io.Copy returned
    mpc,            \* position of the caller
    result          \* what Bidirectional returned

spliceVars == <<hc, pin, pend, wfail, rpos, pout, cw, closed, gpc, buf, cerr, mpc, result>>

\* the agent (internal/client) and the calls of pure functions on their own
VARIABLES
    callErrs,           \* firstError(callErrs...): the arguments of a call
    ferr,           \* what that call returned
    config,         \* Backoff.config: the BackoffConfig
    attempt,        \* Backoff.attempt
    delay,          \* what the last NextDelay returned, in nanoseconds
    calls,          \* calls of NextDelay since NewBackoff or the last Reset
    reconnect,      \* Client.reconnect
    subdomain,      \* Client.subdomain: the subdomain asked for, may be empty
    listening,      \* whether the edge accepts connections at serverAddr
    cpc,            \* position of the goroutine in RunWithReconnect / Run
    session,        \* the yamux session of the current attempt
    ctxDone,        \* the context is cancelled
    tunnelURL,      \* Client.tunnelURL
    assignedSubdomain, \* Client.assignedSubdomain
    inbox,          \* the edge's answer on the control stream, not yet read
    sentSubdomain,  \* the subdomain of the last register message sent
    lastAssigned,   \* the subdomain of the last registered message read
    runErr,         \* what the last Run returned
    ret,            \* what RunWithReconnect returned
    dials,          \* connection attempts made (net.Dial calls)
    timerFired,     \* the time.After(delay) channel of the select is ready
    streams,        \* data streams accepted in the current attempt
    unregistered,   \* attempts in a row that failed without a registration
    perr,           \* an error value handed to isPermanentError
    isPerm,         \* what isPermanentError returned for it, <<>> before the call
    pbase,          \* the innermost error perr was built from
    pkeeps,         \* every wrapping of pbase in perr was made with %w
    wire,           \* one direction of a control stream: JSON values written, not yet read
    wend,           \* how reads of it end once it is drained: "open", "eof", "error"
    sentMsgs,       \* the messages handed to the Send* operations, in order
    got,            \* the messages ReadMessage returned, in order
    rerr,           \* the error of the last ReadMessage, NoErr if it returned a message
    derr,           \* the error the json.Decoder keeps after a failed Decode
    lastVal,        \* the value the last ReadMessage took from the stream
    clean,          \* everything written to the stream was written by Send*
    xhost,          \* a host handed to extractSubdomain
    xsub,           \* what extractSubdomain returned for it, Pending before the call
    policy,         \* the host and the answer of the last hostPolicy call
    srv,            \* where Server.Run is
    listener,       \* s.controlListener: "none", "open" or "closed"
    apc,            \* where the acceptTunnelClients goroutine is
    accepts,        \* calls of controlListener.Accept, counted up to MaxAccepts
    handlers,       \* handleTunnelClient goroutines started, counted up to MaxAccepts
    sdata,          \* the bytes the edge writes on a data stream, then closes it
    spos,           \* how many of them the agent has read from the raw stream
    bbuf,           \* bytes read into the bufio.Reader and not yet taken from it
    requestLine,    \* what reader.ReadString has collected
    spc,            \* where handleStream is
    mr,             \* the reader io.MultiReader(reader, stream) is at
    localIn,        \* the bytes written to the local service connection
    sfail,          \* the step of handleStream that failed, "none" if none did
    hstreams,       \* the handleStream goroutine of each data stream of the session
    rpc,            \* where the reconnecting agent is in RunWithReconnect
    rsess,          \* its current session
    rsubdomain,     \* c.subdomain, the subdomain it was started with
    rassigned,      \* c.assignedSubdomain
    rurl,           \* c.tunnelURL
    url0,           \* the URL of its first registration
    rsent,          \* the subdomain of the register message it has sent
    rmsg,           \* the edge's answer, not yet read
    entry,          \* who holds the agent's subdomain in the edge's registry
    rlost,          \* sessions the agent has lost
    runs,           \* Run attempts the Client has started
    bpc,            \* where RunWithReconnect is, for the heartbeat senders
    cSession,       \* c.session: the attempt whose session the field holds
    cControlStream, \* c.controlStream: the attempt whose control stream it holds
    sessOf,         \* the session of each attempt
    senders,        \* the sendHeartbeats goroutine started by each attempt
    hbWrites,       \* <<sender, attempt>>: the sender wrote to that attempt's control stream
    hbCloses,       \* <<sender, attempt>>: the sender closed that attempt's session
    bctx,           \* the context of RunWithReconnect is cancelled
    fsess,          \* the session whose control stream carries the heartbeats
    tpc,            \* where the agent's heartbeat sender is
    lpc,            \* where the edge's control loop is
    hbBuf,          \* heartbeats in the edge's receive window, not yet read
    ackBuf,         \* acks in the agent's receive window, not yet read
    hbSent,         \* heartbeats the agent has sent
    hbRecv          \* heartbeats the control loop has received

backoffVars == <<config, attempt, delay, calls>>

optionVars == <<reconnect, subdomain, listening>>

runVars == <<cpc, session, ctxDone, tunnelURL, assignedSubdomain, inbox,
             sentSubdomain, lastAssigned, runErr, ret, dials, timerFired, streams,
             unregistered>>

errVars == <<perr, isPerm, pbase, pkeeps>>

codecVars == <<wire, wend, sentMsgs, got, rerr, derr, lastVal, clean>>

hostVars == <<xhost, xsub, policy>>

\* the control listener of the edge and its accept loop
acceptVars == <<srv, listener, apc, accepts, handlers>>

\* one agent stream handler
streamVars == <<sdata, spos, bbuf, requestLine, spc, mr, localIn, sfail>>

\* the stream handlers of one session
handlerVars == <<hstreams>>

\* an agent that reconnects to the edge
reconnVars == <<rpc, rsess, rsubdomain, rassigned, rurl, url0, rsent, rmsg, entry, rlost>>

\* the heartbeat senders of one Client
beatVars == <<runs, bpc, cSession, cControlStream, sessOf, senders, hbWrites, hbCloses, bctx>>

\* the heartbeat exchange on one control stream
flowVars == <<fsess, tpc, lpc, hbBuf, ackBuf, hbSent, hbRecv>>

auxVars == <<acceptVars, streamVars, handlerVars, reconnVars, beatVars, flowVars>>

fnVars == <<errVars, codecVars, hostVars, auxVars>>

agentVars == <<callErrs, ferr, backoffVars, optionVars, runVars, fnVars>>

vars == <<edgeVars, spliceVars, agentVars>>

NewReq == [pc |-> "new", host |-> EmptyStr, client |-> NoClient, status |-> 0,
           stream |-> "none", streamOn |-> NoClient, conn |-> "http", sent |-> FALSE]

EdgeInit ==
    /\ apiKeys \in KeyConfigs
    /\ mu = 0
    /\ clients = [s \in Subdomains |-> NoClient]
    /\ hpc = [c \in Conns |-> "idle"]
    /\ sub = [c \in Conns |-> EmptyStr]
    /\ token = [c \in Conns |-> NoToken]
    /\ sess = [c \in Conns |-> "none"]
    /\ reply = [c \in Conns |-> NoReply]
    /\ delivered = [c \in Conns |-> FALSE]
    /\ lastHeartbeat = [c \in Conns |-> 0]
    /\ now = 0
    /\ req = [r \in Reqs |-> NewReq]

\* ------------------------------------------------------------ the backoff
\* float64 values are exact fractions here: Multiplier is a number of MulDen-ths,
\* Jitter a number of JitterDen-ths, and rng.Float64()*2 - 1 one of the
\* RandDen-ths in [-1, 1); a time.Duration is a whole number of nanoseconds
MulDen == 2
JitterDen == 100
Rands == (0 - RandDen)..(RandDen - 1)

BackoffConfig ==
    [InitialDelay : {1, 3}, MaxDelay : {10}, Multiplier : {3, 4},
     Jitter : {0, 25, 100}, MaxRetries : 0..MaxRetriesBound]

\* the defaults 1s, 60s, 2.0, 0.25, unlimited, at the scale of the initial delay
DefaultBackoffConfig ==
    [InitialDelay |-> 1, MaxDelay |-> 60, Multiplier |-> 4, Jitter |-> 25, MaxRetries |-> 0]

RECURSIVE Pow(_, _)
Pow(b, e) == IF e = 0 THEN 1 ELSE b * Pow(b, e - 1)

\* a delay that is never capped
NoCap(num, den) == num

\* if delay > float64(MaxDelay) { delay = float64(MaxDelay) }, on num / den
CapAtMaxDelay(num, den) ==
    IF num > config.MaxDelay * den THEN config.MaxDelay * den ELSE num

\* time.Duration(delay) of a float64 delay >= 0: the fraction is cut off
Duration(num, den) == num \div den

\* the value NextDelay returns on attempt n with the random number k / RandDen
NextDelayValue(n, k) ==
    LET den  == Pow(MulDen, n - 1)
        base == config.InitialDelay * Pow(config.Multiplier, n - 1)
        num  == CapAtMaxDelay(base, den)
        jnum == IF config.Jitter > 0
                THEN num * JitterDen * RandDen + num * config.Jitter * k
                ELSE num * JitterDen * RandDen
        jden == den * JitterDen * RandDen
    IN  IF jnum < 0 THEN 0 ELSE Duration(jnum, jden)

\* backoff.NextDelay(): b.attempt++, then the delay of that attempt
NextDelayCall ==
    /\ attempt' = attempt + 1
    /\ calls' = calls + 1
    /\ \E k \in Rands : delay' = NextDelayValue(attempt + 1, k)

\* backoff.Reset()
ResetCall ==
    /\ attempt' = 0
    /\ calls' = 0

\* a backoff that never gives up
MaxRetriesReachedNever == FALSE

\* a backoff that allows one retry too many
MaxRetriesReachedLate ==
    IF config.MaxRetries = 0 THEN FALSE ELSE attempt > config.MaxRetries

\* backoff.MaxRetriesReached()
MaxRetriesReached ==
    IF config.MaxRetries = 0 THEN FALSE ELSE attempt >= config.MaxRetries

\* the two methods called on their own, in any order
NextDelay ==
    /\ attempt < MaxAttempts
    /\ NextDelayCall
    /\ UNCHANGED <<edgeVars, spliceVars, callErrs, ferr, config, optionVars, runVars, fnVars>>

Reset ==
    /\ ResetCall
    /\ UNCHANGED <<edgeVars, spliceVars, callErrs, ferr, config, delay, optionVars, runVars, fnVars>>

\* ------------------------------------------------------------ the agent
\* an error is its text and the sentinels errors.Is finds in its chain;
\* fmt.Errorf with %w keeps the chain of the wrapped error, with %s only text
NoErr == [text |-> <<>>, chain |-> {}]
NotReturned == [text |-> <<"not returned">>, chain |-> {}]
Sentinel(name, text) == [text |-> <<text>>, chain |-> {name}]
ErrShutdown == Sentinel("ErrShutdown", "client shutdown")
ErrPermanentFailure == Sentinel("ErrPermanentFailure", "permanent failure")
ErrSubdomainTaken == Sentinel("ErrSubdomainTaken", "subdomain already in use")
ErrMaxRetriesExceeded ==
    Sentinel("ErrMaxRetriesExceeded", "maximum reconnection attempts exceeded")
\* errors of the network and of yamux
ErrConnRefused == Sentinel("ECONNREFUSED", "connection refused")
ErrSessionShutdown == Sentinel("ErrSessionShutdown", "session shutdown")
ErrStreamEOF == Sentinel("EOF", "EOF")

ErrorfW(prefix, e) == [text |-> <<prefix>> \o e.text, chain |-> e.chain]
ErrorfS(prefix, m) == [text |-> <<prefix, m>>, chain |-> {}]

\* fmt.Errorf with %v of an error: its text, not its chain
ErrorfV(prefix, e) == [text |-> <<prefix>> \o e.text, chain |-> {}]

\* errors.Is(err, target) for a sentinel target: target is found by unwrapping err
Is(err, target) == target.chain \subseteq err.chain

\* a classification that compares the error itself and does not unwrap it
isPermanentErrorNoUnwrap(err) ==
    err \in {ErrShutdown, ErrPermanentFailure, ErrSubdomainTaken, ErrMaxRetriesExceeded}

\* isPermanentError(err)
isPermanentError(err) ==
    IF err = NoErr
    THEN FALSE
    ELSE \/ Is(err, ErrShutdown)
         \/ Is(err, ErrPermanentFailure)
         \/ Is(err, ErrSubdomainTaken)
         \/ Is(err, ErrMaxRetriesExceeded)

\* the errors isPermanentError is called with: nil, the sentinels and errors
\* of the network, wrapped up to MaxWrap times
BaseErrs ==
    {NoErr, ErrShutdown, ErrPermanentFailure, ErrSubdomainTaken, ErrMaxRetriesExceeded,
     ErrConnRefused, ErrSessionShutdown, ErrStreamEOF}

WrapDepth == Len(perr.text) - Len(pbase.text)

\* fmt.Errorf("run: %w", err)
WrapW ==
    /\ isPerm = <<>>
    /\ WrapDepth < MaxWrap
    /\ perr' = ErrorfW("run", perr)
    /\ UNCHANGED <<edgeVars, spliceVars, callErrs, ferr, backoffVars, optionVars, runVars,
                   isPerm, pbase, pkeeps, codecVars, hostVars, auxVars>>

\* fmt.Errorf("run: %v", err)
WrapV ==
    /\ isPerm = <<>>
    /\ WrapDepth < MaxWrap
    /\ perr' = ErrorfV("run failed", perr)
    /\ pkeeps' = FALSE
    /\ UNCHANGED <<edgeVars, spliceVars, callErrs, ferr, backoffVars, optionVars, runVars,
                   isPerm, pbase, codecVars, hostVars, auxVars>>

CallIsPermanentError ==
    /\ isPerm = <<>>
    /\ isPerm' = <<isPermanentError(perr)>>
    /\ UNCHANGED <<edgeVars, spliceVars, callErrs, ferr, backoffVars, optionVars, runVars,
                   perr, pbase, pkeeps, codecVars, hostVars, auxVars>>

\* the messages the edge may answer a register message with
NoMsg == [type |-> "none"]
URLOf(sd) == <<"h", "/">> \o sd
RegisteredMsg(sd) == [type |-> TypeRegistered, url |-> URLOf(sd), subdomain |-> sd]
ErrorMsg(m) == [type |-> TypeError, message |-> m]
HeartbeatAckMsg == [type |-> TypeHeartbeatAck]
EdgeAnswers(sd) ==
    {RegisteredMsg(a) : a \in (IF sd = EmptyStr THEN generateSubdomain ELSE {sd})}
        \cup {ErrorMsg(ErrAuth), ErrorMsg(ErrInUse), HeartbeatAckMsg}

NoRegister == <<"none">>

\* ------------------------------------------------ the control accept loop
\* the edge, the splice, the agent's loop and the functions called on their own
restVars ==
    <<edgeVars, spliceVars, callErrs, ferr, backoffVars, optionVars, runVars, errVars,
      codecVars, hostVars>>

\* everything but the accept loop
notAccept == <<restVars, streamVars, handlerVars, reconnVars, beatVars, flowVars>>

\* Server.Run has not been called
AcceptIdle ==
    /\ srv = "start"
    /\ listener = "none"
    /\ apc = "none"
    /\ accepts = 0
    /\ handlers = 0


UpTo(n) == IF n < MaxAccepts THEN n + 1 ELSE MaxAccepts

\* Run: net.Listen("tcp", s.controlAddr); an error is returned at once
Listen ==
    /\ srv = "start"
    /\ \/ listener' = "open" /\ srv' = "go"
       \/ listener' = listener /\ srv' = "returned"
    /\ UNCHANGED <<notAccept, apc, accepts, handlers>>

\* Run: go s.acceptTunnelClients()
GoAccept ==
    /\ srv = "go"
    /\ apc' = "accept"
    /\ srv' = "serving"
    /\ UNCHANGED <<notAccept, listener, accepts, handlers>>

\* Run: runHTTPOnly or runWithTLS returns, and the deferred
\* s.controlListener.Close() runs
ServeReturns ==
    /\ srv = "serving"
    /\ listener' = "closed"
    /\ srv' = "returned"
    /\ UNCHANGED <<notAccept, apc, accepts, handlers>>

\* acceptTunnelClients: conn, err := s.controlListener.Accept(); on a closed
\* listener Accept fails, on an open one it returns a connection or fails
Accept ==
    /\ apc = "accept"
    /\ accepts' = UpTo(accepts)
    /\ \/ listener = "open" /\ apc' = "accepted"
       \/ apc' = "failed"
    /\ UNCHANGED <<notAccept, srv, listener, handlers>>

\* acceptTunnelClients: if err != nil { slog.Error(...); continue }
AcceptError ==
    /\ apc = "failed"
    /\ apc' = "accept"
    /\ UNCHANGED <<notAccept, srv, listener, accepts, handlers>>

\* acceptTunnelClients: go s.handleTunnelClient(conn), and the next round
GoHandle ==
    /\ apc = "accepted"
    /\ handlers' = UpTo(handlers)
    /\ apc' = "accept"
    /\ UNCHANGED <<notAccept, srv, listener, accepts>>

\* --------------------------------------- reconnection against the registry
notReconn == <<restVars, acceptVars, streamVars, handlerVars, beatVars, flowVars>>

\* another outcome of generateSubdomain
SubH == <<"d", "e", "a", "d", "b", "e", "e", "f">>

\* no reconnecting agent is running
ReconnIdle ==
    /\ rpc = "idle"
    /\ rsess = "none"
    /\ rsubdomain = EmptyStr
    /\ rassigned = EmptyStr
    /\ rurl = EmptyStr
    /\ url0 = EmptyStr
    /\ rsent = NoRegister
    /\ rmsg = NoMsg
    /\ entry = "none"
    /\ rlost = 0

\* the agent has registered for the first time, under the subdomain it asked
\* for or under a generated one, and is in its accept loop
ReconnInit ==
    /\ rpc = "accept"
    /\ rsess = "open"
    /\ rsubdomain \in {EmptyStr, SubA}
    /\ rassigned = (IF rsubdomain = EmptyStr THEN SubG ELSE rsubdomain)
    /\ rurl = URLOf(rassigned)
    /\ url0 = rurl
    /\ rsent = rsubdomain
    /\ rmsg = NoMsg
    /\ entry = "current"
    /\ rlost = 0

\* the connection of the session is lost; the edge has not noticed yet. The
\* edge stays reachable: connections are lost MaxDials times at most
LoseSession ==
    /\ rsess = "open"
    /\ rlost < MaxDials
    /\ rsess' = "closed"
    /\ entry' = (IF entry = "current" THEN "stale" ELSE entry)
    /\ rlost' = rlost + 1
    /\ UNCHANGED <<notReconn, rpc, rsubdomain, rassigned, rurl, url0, rsent, rmsg>>

\* Run: session.AcceptStream fails, "session closed: %w" is returned
AcceptLost ==
    /\ rpc = "accept"
    /\ rsess = "closed"
    /\ rpc' = "ran"
    /\ UNCHANGED <<notReconn, rsess, rsubdomain, rassigned, rurl, url0, rsent, rmsg, entry, rlost>>

\* RunWithReconnect after a failed Run with unlimited retries: the error is
\* not permanent, MaxRetriesReached is false, the loop sleeps for the delay
Sleep ==
    /\ rpc = "ran"
    /\ rpc' = "sleep"
    /\ UNCHANGED <<notReconn, rsess, rsubdomain, rassigned, rurl, url0, rsent, rmsg, entry, rlost>>

\* a reconnect that registers with the subdomain the agent was started with
ReconnectRequested == rsubdomain

\* subdomain := c.subdomain; if c.assignedSubdomain != "" { subdomain = c.assignedSubdomain }
ReconnectSubdomain == IF rassigned # EmptyStr THEN rassigned ELSE rsubdomain

\* the delay has passed: c.tunnelURL = "", Run dials the reachable edge, opens
\* the session and the control stream and sends register
Redial ==
    /\ rpc = "sleep"
    /\ rurl' = EmptyStr
    /\ rsess' = "open"
    /\ rsent' = ReconnectSubdomain
    /\ rmsg' = NoMsg
    /\ rpc' = "read"
    /\ UNCHANGED <<notReconn, rsubdomain, rassigned, url0, entry, rlost>>

\* handleTunnelClient for the register message: a generated subdomain when
\* none is given, an error when the subdomain is in the registry, otherwise
\* the insert and the registered reply
EdgeRegisters ==
    /\ rpc = "read"
    /\ rsess = "open"
    /\ rmsg = NoMsg
    /\ \E sd \in (IF rsent = EmptyStr THEN {SubG, SubH} ELSE {rsent}) :
          IF URLOf(sd) # url0
          THEN rmsg' = RegisteredMsg(sd) /\ entry' = entry
          ELSE IF entry # "none"
          THEN rmsg' = ErrorMsg(ErrInUse) /\ entry' = entry
          ELSE rmsg' = RegisteredMsg(sd) /\ entry' = "current"
    /\ UNCHANGED <<notReconn, rpc, rsess, rsubdomain, rassigned, rurl, url0, rsent, rlost>>

\* Run: ReadMessage and the switch on the answer
ReadReply ==
    /\ rpc = "read"
    /\ \/ /\ rmsg.type = TypeRegistered
          /\ rsess = "open"
          /\ rurl' = rmsg.url
          /\ rassigned' = rmsg.subdomain
          /\ rpc' = "accept"
          /\ rsess' = rsess
       \/ /\ rmsg.type = TypeError
          /\ rsess' = "closed"
          /\ rpc' = "ran"
          /\ UNCHANGED <<rurl, rassigned>>
       \/ /\ rsess = "closed"
          /\ rmsg.type # TypeError
          /\ rpc' = "ran"
          /\ UNCHANGED <<rurl, rassigned, rsess>>
    /\ rmsg' = NoMsg
    /\ UNCHANGED <<notReconn, rsubdomain, url0, rsent, entry, rlost>>

\* handleControlStream of the lost session: ReadMessage fails and the
\* deferred removeClient deletes the entry
EdgeRemovesLost ==
    /\ entry = "stale"
    /\ entry' = "none"
    /\ UNCHANGED <<notReconn, rpc, rsess, rsubdomain, rassigned, rurl, url0, rsent, rmsg, rlost>>

\* another agent registers the free subdomain, or its tunnel ends
OtherAgent ==
    /\ \/ entry = "none" /\ entry' = "other"
       \/ entry = "other" /\ entry' = "none"
    /\ UNCHANGED <<notReconn, rpc, rsess, rsubdomain, rassigned, rurl, url0, rsent, rmsg, rlost>>

ReconnAgent == AcceptLost \/ Sleep \/ Redial \/ ReadReply

\* ------------------------------------- the stream handlers of one session
Streams == 1..MaxStreams

\* a handler before its first statement: the stream is open, nothing is dialled
NewHandler == [pc |-> "start", streamClosed |-> FALSE, loc |-> "none", fail |-> "none"]

HandlersIdle == hstreams = [st \in Streams |-> NewHandler]


\* go c.handleStream(stream) has run for the stream
Started(st) == st <= streams

\* handleStream: reader.ReadString('\n'); its error is only logged
HandleReadString(st) ==
    /\ Started(st)
    /\ hstreams[st].pc = "start"
    /\ hstreams' = [hstreams EXCEPT ![st].pc = "dial"]
    /\ UNCHANGED <<restVars, acceptVars, streamVars, reconnVars, beatVars, flowVars>>

\* a handler that gives up the whole session when the local service is down
HandleDialClosesSession(st) ==
    /\ hstreams[st].pc = "dial"
    /\ \/ /\ hstreams' = [hstreams EXCEPT ![st].pc = "write", ![st].loc = "open"]
          /\ session' = session
       \/ /\ hstreams' = [hstreams EXCEPT ![st].pc = "done", ![st].streamClosed = TRUE,
                                           ![st].fail = "dial"]
          /\ session' = "closed"
    /\ UNCHANGED <<edgeVars, spliceVars, callErrs, ferr, backoffVars, optionVars, errVars,
                   codecVars, hostVars, acceptVars, streamVars, reconnVars, beatVars,
                   flowVars>>
    /\ UNCHANGED <<cpc, ctxDone, tunnelURL, assignedSubdomain, inbox, sentSubdomain,
                   lastAssigned, runErr, ret, dials, timerFired, streams, unregistered>>

\* handleStream: net.Dial("tcp", c.localAddr); on error stream.Close() and return
HandleDial(st) ==
    /\ hstreams[st].pc = "dial"
    /\ \/ hstreams' = [hstreams EXCEPT ![st].pc = "write", ![st].loc = "open"]
       \/ hstreams' = [hstreams EXCEPT ![st].pc = "done", ![st].streamClosed = TRUE,
                                       ![st].fail = "dial"]
    /\ UNCHANGED <<restVars, acceptVars, streamVars, reconnVars, beatVars, flowVars>>

\* handleStream: localConn.Write(requestLine); on error localConn.Close(),
\* stream.Close() and return
HandleWrite(st) ==
    /\ hstreams[st].pc = "write"
    /\ \/ hstreams' = [hstreams EXCEPT ![st].pc = "splice"]
       \/ hstreams' = [hstreams EXCEPT ![st].pc = "done", ![st].streamClosed = TRUE,
                                       ![st].loc = "closed", ![st].fail = "write"]
    /\ UNCHANGED <<restVars, acceptVars, streamVars, reconnVars, beatVars, flowVars>>

\* handleStream: proxy.Bidirectional(combinedStream, localConn) returns, with
\* an error or without; it has closed the stream and the local connection
HandleSplice(st) ==
    /\ hstreams[st].pc = "splice"
    /\ \E f \in {"none", "splice"} :
          hstreams' = [hstreams EXCEPT ![st].pc = "done", ![st].streamClosed = TRUE,
                                      ![st].loc = "closed", ![st].fail = f]
    /\ UNCHANGED <<restVars, acceptVars, streamVars, reconnVars, beatVars, flowVars>>

HandleStreamOf(st) ==
    HandleReadString(st) \/ HandleDial(st) \/ HandleWrite(st) \/ HandleSplice(st)

\* ------------------------------------------------------------ the heartbeat senders
notBeat == <<restVars, acceptVars, streamVars, handlerVars, reconnVars, flowVars>>

MaxRuns == 3             \* Run attempts of one RunWithReconnect with heartbeat senders

Attempts == 1..MaxRuns

\* a Client before RunWithReconnect has called Run
BeatIdle ==
    /\ runs = 0
    /\ bpc = "idle"
    /\ cSession = 0
    /\ cControlStream = 0
    /\ sessOf = [a \in Attempts |-> "none"]
    /\ senders = [a \in Attempts |-> "none"]
    /\ hbWrites = {}
    /\ hbCloses = {}
    /\ bctx = FALSE

\* Run dials, creates the yamux session and stores it in c.session
RunDial ==
    /\ bpc = "idle"
    /\ ~bctx
    /\ runs < MaxRuns
    /\ runs' = runs + 1
    /\ sessOf' = [sessOf EXCEPT ![runs + 1] = "open"]
    /\ cSession' = runs + 1
    /\ bpc' = "dialed"
    /\ UNCHANGED <<notBeat, cControlStream, senders, hbWrites, hbCloses, bctx>>

\* Run opens the control stream and stores it in c.controlStream
RunOpenControl ==
    /\ bpc = "dialed"
    /\ IF sessOf[runs] = "open"
          THEN /\ cControlStream' = runs
               /\ bpc' = "opened"
          ELSE /\ bpc' = "idle"
               /\ UNCHANGED cControlStream
    /\ UNCHANGED <<notBeat, runs, cSession, sessOf, senders, hbWrites, hbCloses, bctx>>

\* Run registers; once registered it starts a heartbeat sender and enters
\* its accept loop, otherwise it closes its session and returns the error
RunRegister ==
    /\ bpc = "opened"
    /\ \E registered \in BOOLEAN :
          IF registered /\ sessOf[runs] = "open"
             THEN /\ senders' = [senders EXCEPT ![runs] = "running"]
                  /\ bpc' = "accept"
                  /\ UNCHANGED sessOf
             ELSE /\ sessOf' = [sessOf EXCEPT ![runs] = "closed"]
                  /\ bpc' = "idle"
                  /\ UNCHANGED senders
    /\ UNCHANGED <<notBeat, runs, cSession, cControlStream, hbWrites, hbCloses, bctx>>

\* AcceptStream fails on the attempt's closed session and Run returns
RunAcceptFails ==
    /\ bpc = "accept"
    /\ sessOf[runs] = "closed"
    /\ bpc' = (IF bctx THEN "done" ELSE "idle")
    /\ UNCHANGED <<notBeat, runs, cSession, cControlStream, sessOf, senders, hbWrites,
                   hbCloses, bctx>>

\* RunWithReconnect returns ErrShutdown from its wait
RunShutdown ==
    /\ bpc = "idle"
    /\ bctx
    /\ bpc' = "done"
    /\ UNCHANGED <<notBeat, runs, cSession, cControlStream, sessOf, senders, hbWrites,
                   hbCloses, bctx>>

\* the connection of an attempt is lost
SessionLost(a) ==
    /\ sessOf[a] = "open"
    /\ sessOf' = [sessOf EXCEPT ![a] = "closed"]
    /\ UNCHANGED <<notBeat, runs, bpc, cSession, cControlStream, senders, hbWrites,
                   hbCloses, bctx>>

\* the context is cancelled
CancelContext ==
    /\ ~bctx
    /\ bctx' = TRUE
    /\ UNCHANGED <<notBeat, runs, bpc, cSession, cControlStream, sessOf, senders, hbWrites,
                   hbCloses>>

\* the goroutine Run starts to close the attempt's session on cancellation
CloseOnCancel(a) ==
    /\ bctx
    /\ sessOf[a] = "open"
    /\ sessOf' = [sessOf EXCEPT ![a] = "closed"]
    /\ UNCHANGED <<notBeat, runs, bpc, cSession, cControlStream, senders, hbWrites,
                   hbCloses, bctx>>

\* the control stream a sender writes its heartbeat to
HeartbeatStream(sn) == cControlStream

\* the session a sender closes when its send has failed
HeartbeatSession(sn) == cSession

\* a tick of a sender: it sends a heartbeat and on failure closes the session
SendHeartbeats(sn) ==
    /\ senders[sn] = "running"
    /\ IF sessOf[HeartbeatStream(sn)] = "open"
          THEN /\ hbWrites' = hbWrites \cup {<<sn, HeartbeatStream(sn)>>}
               /\ UNCHANGED <<sessOf, senders, hbCloses>>
          ELSE /\ hbCloses' = hbCloses \cup {<<sn, HeartbeatSession(sn)>>}
               /\ sessOf' = [sessOf EXCEPT ![HeartbeatSession(sn)] = "closed"]
               /\ senders' = [senders EXCEPT ![sn] = "stopped"]
               /\ UNCHANGED hbWrites
    /\ UNCHANGED <<notBeat, runs, bpc, cSession, cControlStream, bctx>>

\* a sender returns on the cancelled context
SenderDone(sn) ==
    /\ senders[sn] = "running"
    /\ bctx
    /\ senders' = [senders EXCEPT ![sn] = "stopped"]
    /\ UNCHANGED <<notBeat, runs, bpc, cSession, cControlStream, sessOf, hbWrites,
                   hbCloses, bctx>>

\* ------------------------------------------------------------ the heartbeat exchange
notFlow == <<restVars, acceptVars, streamVars, handlerVars, reconnVars, beatVars>>

\* the receive window of a stream, counted in messages of the control
\* protocol: a write blocks while the reader's window is full
WindowSize == 3

\* heartbeats the sender sends: enough to fill both windows
MaxBeats == 2 * WindowSize + 2

\* no session has been registered
FlowIdle ==
    /\ fsess = "none"
    /\ tpc = "none"
    /\ lpc = "none"
    /\ hbBuf = 0
    /\ ackBuf = 0
    /\ hbSent = 0
    /\ hbRecv = 0

\* the agent has read registered, which leaves its receive window empty, and
\* has started its heartbeat sender; the edge is in its control loop
FlowInit ==
    /\ fsess = "open"
    /\ tpc = "wait"
    /\ lpc = "read"
    /\ hbBuf = 0
    /\ ackBuf = 0
    /\ hbSent = 0
    /\ hbRecv = 0

\* sendHeartbeats: case <-ticker.C
TickerFires ==
    /\ tpc = "wait"
    /\ hbSent < MaxBeats
    /\ tpc' = "send"
    /\ UNCHANGED <<notFlow, fsess, lpc, hbBuf, ackBuf, hbSent, hbRecv>>

\* c.controlStream.SendHeartbeat(): the write waits for room in the edge's
\* window; on a closed session it fails and the sender closes the session
SenderSends ==
    /\ tpc = "send"
    /\ \/ /\ fsess = "open"
          /\ hbBuf < WindowSize
          /\ hbBuf' = hbBuf + 1
          /\ hbSent' = hbSent + 1
          /\ tpc' = "wait"
       \/ /\ fsess = "closed"
          /\ tpc' = "returned"
          /\ UNCHANGED <<hbBuf, hbSent>>
    /\ UNCHANGED <<notFlow, fsess, lpc, ackBuf, hbRecv>>

\* handleControlStream: ReadMessage returns a heartbeat, or an error on the
\* closed session; the read waits while no message has arrived
ControlLoopReads ==
    /\ lpc = "read"
    /\ \/ /\ fsess = "open"
          /\ hbBuf > 0
          /\ hbBuf' = hbBuf - 1
          /\ hbRecv' = hbRecv + 1
          /\ lpc' = "ack"
       \/ /\ fsess = "closed"
          /\ lpc' = "returned"
          /\ UNCHANGED <<hbBuf, hbRecv>>
    /\ UNCHANGED <<notFlow, fsess, tpc, ackBuf, hbSent>>

\* handleControlStream: SendHeartbeatAck(); the write waits for room in the
\* agent's window, which the agent, never reading the stream, never frees
ControlLoopAcks ==
    /\ lpc = "ack"
    /\ \/ /\ fsess = "open"
          /\ ackBuf < WindowSize
          /\ ackBuf' = ackBuf + 1
          /\ lpc' = "read"
       \/ /\ fsess = "closed"
          /\ lpc' = "returned"
          /\ UNCHANGED ackBuf
    /\ UNCHANGED <<notFlow, fsess, tpc, hbBuf, hbSent, hbRecv>>

\* the session ends: the connection is lost or one side closes it
FlowSessionEnds ==
    /\ fsess = "open"
    /\ fsess' = "closed"
    /\ UNCHANGED <<notFlow, tpc, lpc, hbBuf, ackBuf, hbSent, hbRecv>>

\* ------------------------------------------------ the agent stream handler
\* everything but the stream handler
notStream == <<restVars, acceptVars, handlerVars, reconnVars, beatVars, flowVars>>

LF == "\n"
StreamBytes == {LF, "a", "b"}
StreamData == UNION {[1..n -> StreamBytes] : n \in 0..MaxStreamLen}

\* the buffer io.Copy reads into is 8 times the default bufio buffer
CopyBufSize == 8 * BufioSize

\* no stream has been accepted
StreamIdle ==
    /\ sdata = <<>>
    /\ spos = 0
    /\ bbuf = <<>>
    /\ requestLine = <<>>
    /\ spc = "idle"
    /\ mr = "reader"
    /\ localIn = <<>>
    /\ sfail = "none"


AuxIdle == AcceptIdle /\ StreamIdle /\ HandlersIdle /\ ReconnIdle /\ BeatIdle /\ FlowIdle

\* handleStream(stream) has been started: reader := bufio.NewReader(stream)
StreamInit ==
    /\ sdata \in StreamData
    /\ spos = 0
    /\ bbuf = <<>>
    /\ requestLine = <<>>
    /\ spc = "readString"
    /\ mr = "reader"
    /\ localIn = <<>>
    /\ sfail = "none"

\* the bytes of the stream the agent has not read yet
Unread == SubSeq(sdata, spos + 1, Len(sdata))

\* the index of the first LF in a byte sequence, 0 if there is none
IndexLF(b) ==
    IF \E i \in 1..Len(b) : b[i] = LF
    THEN CHOOSE i \in 1..Len(b) : b[i] = LF /\ \A j \in 1..(i - 1) : b[j] # LF
    ELSE 0

\* what stays in the bufio.Reader behind the first i bytes
KeepBuffered(b, i) == SubSeq(b, i + 1, Len(b))

\* reader.ReadString('\n'): bufio's ReadSlice loop. The line ends at the first
\* LF in the buffer; a full buffer without LF is taken whole and the loop goes
\* on; otherwise one Read of the stream fills the buffer, and at EOF what is
\* buffered is the line. The error is only used for the log.
ReadString ==
    /\ spc = "readString"
    /\ \/ /\ IndexLF(bbuf) > 0
          /\ requestLine' = requestLine \o SubSeq(bbuf, 1, IndexLF(bbuf))
          /\ bbuf' = KeepBuffered(bbuf, IndexLF(bbuf))
          /\ spc' = "dial"
          /\ spos' = spos
       \/ /\ IndexLF(bbuf) = 0
          /\ Len(bbuf) >= BufioSize
          /\ requestLine' = requestLine \o bbuf
          /\ bbuf' = <<>>
          /\ UNCHANGED <<spc, spos>>
       \/ /\ IndexLF(bbuf) = 0
          /\ Len(bbuf) < BufioSize
          /\ spos < Len(sdata)
          /\ \E n \in 1..(BufioSize - Len(bbuf)) :
                /\ spos + n <= Len(sdata)
                /\ bbuf' = bbuf \o SubSeq(sdata, spos + 1, spos + n)
                /\ spos' = spos + n
          /\ UNCHANGED <<spc, requestLine>>
       \/ /\ IndexLF(bbuf) = 0
          /\ Len(bbuf) < BufioSize
          /\ spos = Len(sdata)
          /\ requestLine' = requestLine \o bbuf
          /\ bbuf' = <<>>
          /\ spc' = "dial"
          /\ spos' = spos
    /\ UNCHANGED <<notStream, sdata, mr, localIn, sfail>>

\* localConn, err := net.Dial("tcp", c.localAddr); on error stream.Close()
DialLocal ==
    /\ spc = "dial"
    /\ \/ spc' = "write" /\ sfail' = sfail
       \/ spc' = "done" /\ sfail' = "dial"
    /\ UNCHANGED <<notStream, sdata, spos, bbuf, requestLine, mr, localIn>>

\* localConn.Write([]byte(requestLine)); on error both are closed
WriteRequestLine ==
    /\ spc = "write"
    /\ \/ /\ localIn' = localIn \o requestLine
          /\ spc' = "combine"
          /\ sfail' = sfail
       \/ /\ localIn' = localIn
          /\ spc' = "done"
          /\ sfail' = "write"
    /\ UNCHANGED <<notStream, sdata, spos, bbuf, requestLine, mr>>

\* a combined stream that reads the raw stream only
RawOnly == "stream"

\* streamReader := io.MultiReader(reader, stream)
MultiReader == "reader"

\* proxy.Bidirectional(combinedStream, localConn), the direction to the local
\* service: one Read of the readerConn and the Write of what it returned.
\* The bufio.Reader hands out what it holds, then reads the stream into the
\* caller's buffer; at its EOF the MultiReader goes on to the stream, whose
\* EOF ends the copy.
CopyToLocal ==
    /\ spc = "copy"
    /\ \/ /\ mr = "reader"
          /\ bbuf # <<>>
          /\ \/ localIn' = localIn \o bbuf /\ UNCHANGED <<spc, sfail>>
             \/ localIn' = localIn /\ spc' = "done" /\ sfail' = "splice"
          /\ bbuf' = <<>>
          /\ UNCHANGED <<spos, mr>>
       \/ /\ mr = "stream" \/ bbuf = <<>>
          /\ spos < Len(sdata)
          /\ \E n \in 1..CopyBufSize :
                /\ spos + n <= Len(sdata)
                /\ spos' = spos + n
                /\ \/ /\ localIn' = localIn \o SubSeq(sdata, spos + 1, spos + n)
                      /\ UNCHANGED <<spc, sfail>>
                   \/ localIn' = localIn /\ spc' = "done" /\ sfail' = "splice"
          /\ UNCHANGED <<bbuf, mr>>
       \/ /\ mr = "reader"
          /\ bbuf = <<>>
          /\ spos = Len(sdata)
          /\ mr' = "stream"
          /\ UNCHANGED <<spos, bbuf, localIn, spc, sfail>>
       \/ /\ mr = "stream"
          /\ spos = Len(sdata)
          /\ spc' = "done"
          /\ UNCHANGED <<spos, bbuf, localIn, mr, sfail>>
    /\ UNCHANGED <<notStream, sdata, requestLine>>

\* streamReader := io.MultiReader(reader, stream); combinedStream := &readerConn{...}
SetMultiReader ==
    /\ spc = "combine"
    /\ mr' = MultiReader
    /\ spc' = "copy"
    /\ UNCHANGED <<notStream, sdata, spos, bbuf, requestLine, localIn, sfail>>

\* RunWithReconnect has not been called
RunNotStarted ==
    /\ cpc = "idle"
    /\ session = "none"
    /\ ctxDone = FALSE
    /\ tunnelURL = EmptyStr
    /\ assignedSubdomain = EmptyStr
    /\ inbox = NoMsg
    /\ sentSubdomain = NoRegister
    /\ lastAssigned = EmptyStr
    /\ runErr = NotReturned
    /\ ret = NotReturned
    /\ dials = 0
    /\ timerFired = FALSE
    /\ streams = 0
    /\ unregistered = 0

\* ------------------------------------------------- the control-stream codec
\* payload strings: empty, plain text, and a string with a byte that is not
\* valid UTF-8, which json.Marshal replaces by U+FFFD
BadUTF8 == "a\\xff"
Replaced == "a\\ufffd"
Strs == {"", "a", BadUTF8}

NewRegisterMessage(sd, tok) == [type |-> TypeRegister, subdomain |-> sd, token |-> tok]
NewRegisteredMessage(url, sd) == [type |-> TypeRegistered, url |-> url, subdomain |-> sd]
NewHeartbeatMessage == [type |-> TypeHeartbeat]
NewHeartbeatAckMessage == [type |-> TypeHeartbeatAck]
NewErrorMessage(m) == [type |-> TypeError, message |-> m]

\* what the five Send* operations can be called with
Messages ==
    {NewRegisterMessage(sd, tok) : sd \in Strs, tok \in Strs}
        \cup {NewRegisteredMessage(u, sd) : u \in Strs, sd \in Strs}
        \cup {NewHeartbeatMessage, NewHeartbeatAckMessage}
        \cup {NewErrorMessage(m) : m \in Strs}

\* the fields of the struct of a variant, and those tagged omitempty
FieldsOf(t) ==
    CASE t = TypeRegister -> {"type", "subdomain", "token"}
      [] t = TypeRegistered -> {"type", "url", "subdomain"}
      [] t = TypeError -> {"type", "message"}
      [] OTHER -> {"type"}
OmitEmpty(t) == IF t = TypeRegister THEN {"subdomain", "token"} ELSE {}

\* a JSON value on the stream: whether it is well-formed JSON, its shape, and
\* the members of an object, each a string or a number
JStr(str) == [t |-> "string", v |-> str]
JNum == [t |-> "number", v |-> "5"]
JObject(mem) == [syntax |-> "ok", shape |-> "object", members |-> mem]
NoMembers == [n \in {} |-> JNum]
NoVal == [syntax |-> "none", shape |-> "none", members |-> NoMembers]

\* an encoder that writes the bytes of a string as they are
KeepBytes(str) == str

\* json.Marshal of a string: coerced to valid UTF-8
CoerceUTF8(str) == IF str = BadUTF8 THEN Replaced ELSE str

\* encoder.Encode(msg): a JSON object with the struct's fields, an omitempty
\* field left out when it is empty
Encode(m) ==
    LET D == {n \in DOMAIN m : ~(n \in OmitEmpty(m.type) /\ m[n] = "")}
    IN JObject([n \in D |-> JStr(CoerceUTF8(m[n]))])

\* json.Unmarshal(raw, &v) for a struct with string fields F: an error for a
\* value that is neither an object nor null and for a member of another type
UnmarshalFails(v, F) ==
    \/ v.shape = "scalar"
    \/ v.shape = "object" /\ \E n \in F \cap DOMAIN v.members : v.members[n].t # "string"
Unmarshal(v, F) ==
    [n \in F |-> IF v.shape = "object" /\ n \in DOMAIN v.members
                 THEN v.members[n].v ELSE ""]

\* errors of encoding/json and io
ErrSyntax == Sentinel("SyntaxError", "invalid character")
ErrUnmarshalType == Sentinel("UnmarshalTypeError", "cannot unmarshal")
ErrUnexpectedEOF == Sentinel("ErrUnexpectedEOF", "unexpected EOF")

\* values a peer can write without Send*: bytes that are not JSON, a JSON
\* value that is not an object, null, and objects with a missing, non-string
\* or unknown type or with a payload member that is not a string
Junk ==
    {[syntax |-> "invalid", shape |-> "none", members |-> NoMembers],
     [syntax |-> "ok", shape |-> "scalar", members |-> NoMembers],
     [syntax |-> "ok", shape |-> "null", members |-> NoMembers],
     JObject(NoMembers),
     JObject([n \in {"type"} |-> JNum]),
     JObject([n \in {"type"} |-> JStr("bogus")]),
     JObject([n \in {"type", "subdomain"} |->
                 IF n = "type" THEN JStr(TypeRegister) ELSE JNum]),
     JObject([n \in {"type", "extra"} |->
                 IF n = "type" THEN JStr(TypeHeartbeat) ELSE JNum])}
Truncated == [syntax |-> "truncated", shape |-> "none", members |-> NoMembers]

CodecIdle ==
    /\ wire = <<>>
    /\ wend = "open"
    /\ sentMsgs = <<>>
    /\ got = <<>>
    /\ rerr = NoErr
    /\ derr = NoErr
    /\ lastVal = NoVal
    /\ clean = TRUE

codecFrame ==
    <<edgeVars, spliceVars, callErrs, ferr, backoffVars, optionVars, runVars, errVars, hostVars,
      auxVars>>

\* SendRegister, SendRegistered, SendHeartbeat, SendHeartbeatAck, SendError
Send ==
    /\ wend = "open"
    /\ Len(wire) + Len(got) < MaxMsgs
    /\ \E m \in Messages :
          /\ wire' = Append(wire, Encode(m))
          /\ sentMsgs' = Append(sentMsgs, m)
    /\ UNCHANGED <<codecFrame, wend, got, rerr, derr, lastVal, clean>>

\* the peer writes something else
PeerWritesJunk ==
    /\ wend = "open"
    /\ Len(wire) + Len(got) < MaxMsgs
    /\ \E v \in Junk : wire' = Append(wire, v)
    /\ clean' = FALSE
    /\ UNCHANGED <<codecFrame, wend, sentMsgs, got, rerr, derr, lastVal>>

\* the writing end is closed, at a value boundary or in the middle of a value
PeerCloses ==
    /\ wend = "open"
    /\ \/ wire' = wire /\ clean' = clean
       \/ wire' = Append(wire, Truncated) /\ clean' = FALSE
    /\ wend' = "eof"
    /\ UNCHANGED <<codecFrame, sentMsgs, got, rerr, derr, lastVal>>

\* the stream fails: reads return an error that is not EOF
StreamFails ==
    /\ wend = "open"
    /\ wend' = "error"
    /\ UNCHANGED <<codecFrame, wire, sentMsgs, got, rerr, derr, lastVal, clean>>

\* decoder.Decode(&raw): the error, NoErr when it returns the next value
DecodeErr ==
    IF derr # NoErr THEN derr
    ELSE IF wire = <<>> THEN (IF wend = "eof" THEN ErrStreamEOF ELSE ErrSessionShutdown)
    ELSE IF Head(wire).syntax = "invalid" THEN ErrSyntax
    ELSE IF Head(wire).syntax = "truncated" THEN ErrUnexpectedEOF
    ELSE NoErr

\* mt.Type after json.Unmarshal(raw, &mt)
TypeOf(v) == Unmarshal(v, {"type"}).type

\* a ReadMessage that does not look at the result of the second Unmarshal
ParseErrTypeOnly(v) ==
    IF UnmarshalFails(v, {"type"})
    THEN ErrorfW("failed to parse message type", ErrUnmarshalType)
    ELSE IF TypeOf(v) \notin KnownTypes
    THEN ErrorfS("unknown message type", TypeOf(v))
    ELSE NoErr

\* ReadMessage: the error it returns for the decoded value v, NoErr if none
ParseErr(v) ==
    IF UnmarshalFails(v, {"type"})
    THEN ErrorfW("failed to parse message type", ErrUnmarshalType)
    ELSE IF TypeOf(v) \notin KnownTypes
    THEN ErrorfS("unknown message type", TypeOf(v))
    ELSE IF UnmarshalFails(v, FieldsOf(TypeOf(v)))
    THEN ErrorfW("failed to parse message", ErrUnmarshalType)
    ELSE NoErr

ReadMessage ==
    /\ wire # <<>> \/ wend # "open" \/ derr # NoErr
    /\ IF DecodeErr # NoErr
       THEN /\ rerr' = ErrorfW("failed to read message", DecodeErr)
            /\ derr' = DecodeErr
            /\ lastVal' = IF wire = <<>> \/ derr # NoErr THEN NoVal ELSE Head(wire)
            /\ UNCHANGED <<wire, got>>
       ELSE /\ wire' = Tail(wire)
            /\ lastVal' = Head(wire)
            /\ rerr' = ParseErr(Head(wire))
            /\ got' = IF ParseErr(Head(wire)) = NoErr
                      THEN Append(got, Unmarshal(Head(wire), FieldsOf(TypeOf(Head(wire)))))
                      ELSE got
            /\ UNCHANGED derr
    /\ UNCHANGED <<codecFrame, wend, sentMsgs, clean>>

\* -------------------------------------------------------- extractSubdomain
HostChars == {"a", ".", ":"}
\* every host of at most MaxHostLen characters
AllHosts == UNION {[1..n -> HostChars] : n \in 0..MaxHostLen}
NoPolicy == [host |-> EmptyStr, ok |-> FALSE]

HostIdle ==
    /\ xhost = EmptyStr
    /\ xsub = <<"pending">>
    /\ policy = NoPolicy

CallExtractSubdomain ==
    /\ xsub = <<"pending">>
    /\ xsub' = extractSubdomain(xhost)
    /\ UNCHANGED <<edgeVars, spliceVars, callErrs, ferr, backoffVars, optionVars, runVars,
                   errVars, codecVars, xhost, policy, auxVars>>

\* no function has been called on its own
FnIdle ==
    /\ perr = NoErr
    /\ isPerm = <<>>
    /\ pbase = NoErr
    /\ pkeeps = TRUE
    /\ CodecIdle
    /\ HostIdle

\* what no agent action changes
agentFrame == <<edgeVars, spliceVars, callErrs, ferr, config, optionVars, fnVars>>

\* the same, with the count of unregistered failures, which only AfterRun changes
agentFrameH == <<agentFrame, unregistered>>

\* a RunWithReconnect that retries whatever c.reconnect says
ReconnectAlways == TRUE

\* if !c.reconnect { return c.Run(ctx) }
ReconnectEnabled == reconnect

\* RunWithReconnect is entered: one Run, or NewBackoff and the loop
Start ==
    /\ cpc = "idle"
    /\ IF ReconnectEnabled
       THEN cpc' = "top" /\ attempt' = 0 /\ calls' = 0
       ELSE cpc' = "dial" /\ UNCHANGED <<attempt, calls>>
    /\ UNCHANGED <<agentFrameH, delay, session, ctxDone, tunnelURL, assignedSubdomain, inbox,
                   sentSubdomain, lastAssigned, runErr, ret, dials, timerFired, streams>>

\* the head of the loop: c.tunnelURL = "", then c.Run(ctx)
LoopTop ==
    /\ cpc = "top"
    /\ tunnelURL' = EmptyStr
    /\ cpc' = "dial"
    /\ UNCHANGED <<agentFrameH, backoffVars, session, ctxDone, assignedSubdomain, inbox,
                   sentSubdomain, lastAssigned, runErr, ret, dials, timerFired, streams>>

\* Run: net.Dial
Dial ==
    /\ cpc = "dial"
    /\ dials' = dials + 1
    /\ streams' = 0
    /\ \/ /\ listening
          /\ cpc' = "session"
          /\ runErr' = runErr
       \/ /\ cpc' = "ran"
          /\ runErr' = ErrorfW("failed to connect to server", ErrConnRefused)
    /\ UNCHANGED <<agentFrameH, backoffVars, session, ctxDone, tunnelURL, assignedSubdomain,
                   inbox, sentSubdomain, lastAssigned, ret, timerFired>>

\* Run: yamux.Client, c.session = session, and the goroutine that closes the
\* session on cancellation is started
NewSession ==
    /\ cpc = "session"
    /\ session' = "open"
    /\ inbox' = NoMsg
    /\ cpc' = "open"
    /\ UNCHANGED <<agentFrameH, backoffVars, ctxDone, tunnelURL, assignedSubdomain,
                   sentSubdomain, lastAssigned, runErr, ret, dials, timerFired, streams>>

\* Run: session.OpenStream
OpenControlStream ==
    /\ cpc = "open"
    /\ \/ /\ session = "open"
          /\ cpc' = "register"
          /\ UNCHANGED <<session, runErr>>
       \/ /\ session = "closed"
          /\ cpc' = "ran"
          /\ runErr' = ErrorfW("failed to open control stream", ErrSessionShutdown)
          /\ UNCHANGED session
    /\ UNCHANGED <<agentFrameH, backoffVars, ctxDone, tunnelURL, assignedSubdomain, inbox,
                   sentSubdomain, lastAssigned, ret, dials, timerFired, streams>>

\* a register message that always carries c.subdomain
RegisterSubdomainRequested == subdomain

\* subdomain := c.subdomain; if c.assignedSubdomain != "" { subdomain = c.assignedSubdomain }
RegisterSubdomain ==
    IF assignedSubdomain # EmptyStr THEN assignedSubdomain ELSE subdomain

\* Run: SendRegister(subdomain, c.token)
SendRegister ==
    /\ cpc = "register"
    /\ \/ /\ session = "open"
          /\ sentSubdomain' = RegisterSubdomain
          /\ cpc' = "read"
          /\ UNCHANGED runErr
       \/ /\ session = "closed"
          /\ cpc' = "ran"
          /\ runErr' = ErrorfW("failed to send register message", ErrSessionShutdown)
          /\ UNCHANGED sentSubdomain
    /\ UNCHANGED <<agentFrameH, backoffVars, session, ctxDone, tunnelURL, assignedSubdomain,
                   inbox, lastAssigned, ret, dials, timerFired, streams>>

\* the edge answers the register message
EdgeAnswer ==
    /\ cpc = "read"
    /\ session = "open"
    /\ inbox = NoMsg
    /\ inbox' \in EdgeAnswers(sentSubdomain)
    /\ UNCHANGED <<agentFrameH, backoffVars, cpc, session, ctxDone, tunnelURL, assignedSubdomain,
                   sentSubdomain, lastAssigned, runErr, ret, dials, timerFired, streams>>

\* Run: ReadMessage and the switch on the answer
ReadAnswer ==
    /\ cpc = "read"
    /\ \/ /\ inbox.type = TypeRegistered
          /\ tunnelURL' = inbox.url
          /\ assignedSubdomain' = inbox.subdomain
          /\ lastAssigned' = inbox.subdomain
          /\ cpc' = "accept"
          /\ UNCHANGED <<session, runErr>>
       \/ /\ inbox.type = TypeError
          /\ session' = "closed"
          /\ cpc' = "ran"
          /\ runErr' = ErrorfS("registration failed: ", inbox.message)
          /\ UNCHANGED <<tunnelURL, assignedSubdomain, lastAssigned>>
       \/ /\ inbox.type = TypeHeartbeatAck
          /\ session' = "closed"
          /\ cpc' = "ran"
          /\ runErr' = ErrorfS("unexpected message type: ", inbox.type)
          /\ UNCHANGED <<tunnelURL, assignedSubdomain, lastAssigned>>
       \/ /\ session = "closed"
          /\ cpc' = "ran"
          /\ runErr' = ErrorfW("failed to read registered message", ErrStreamEOF)
          /\ UNCHANGED <<session, tunnelURL, assignedSubdomain, lastAssigned>>
    /\ inbox' = NoMsg
    /\ UNCHANGED <<agentFrameH, backoffVars, ctxDone, sentSubdomain, ret, dials, timerFired, streams>>

\* Run: session.AcceptStream returns a stream, go c.handleStream(stream)
AcceptDataStream ==
    /\ cpc = "accept"
    /\ session = "open"
    /\ streams < MaxStreams
    /\ streams' = streams + 1
    /\ UNCHANGED <<agentFrameH, backoffVars, cpc, session, ctxDone, tunnelURL, assignedSubdomain,
                   inbox, sentSubdomain, lastAssigned, runErr, ret, dials, timerFired>>

\* Run: session.AcceptStream returns an error
AcceptFails ==
    /\ cpc = "accept"
    /\ session = "closed"
    /\ cpc' = "acceptErr"
    /\ UNCHANGED <<agentFrameH, backoffVars, session, ctxDone, tunnelURL, assignedSubdomain,
                   inbox, sentSubdomain, lastAssigned, runErr, ret, dials, timerFired, streams>>

\* an accept loop that never looks at the context
CtxErrIgnored == FALSE

\* ctx.Err() != nil
CtxErr == ctxDone

\* Run: if ctx.Err() != nil { return ErrShutdown }; return "session closed: %w"
CheckCtx ==
    /\ cpc = "acceptErr"
    /\ cpc' = "ran"
    /\ runErr' = IF CtxErr THEN ErrShutdown
                 ELSE ErrorfW("session closed", ErrSessionShutdown)
    /\ UNCHANGED <<agentFrameH, backoffVars, session, ctxDone, tunnelURL, assignedSubdomain,
                   inbox, sentSubdomain, lastAssigned, ret, dials, timerFired, streams>>

\* the attempts in a row, this one included, that ended with an error and
\* without a registered reply
UnregisteredAfterRun ==
    IF tunnelURL # EmptyStr THEN 0
    ELSE IF runErr # NoErr THEN unregistered + 1
    ELSE unregistered

\* a loop that never resets the backoff
AfterRunNoReset ==
    /\ cpc = "ran"
    /\ IF ReconnectEnabled
       THEN /\ cpc' = "decide"
            /\ UNCHANGED <<attempt, calls, ret>>
       ELSE /\ cpc' = "returned"
            /\ ret' = runErr
            /\ UNCHANGED <<attempt, calls>>
    /\ unregistered' = UnregisteredAfterRun
    /\ UNCHANGED <<agentFrame, delay, session, ctxDone, tunnelURL, assignedSubdomain, inbox,
                   sentSubdomain, lastAssigned, runErr, dials, timerFired, streams>>

\* Run has returned: without reconnection its result is the result; with it,
\* if c.tunnelURL != "" { backoff.Reset() }
AfterRun ==
    /\ cpc = "ran"
    /\ IF ReconnectEnabled
       THEN /\ cpc' = "decide"
            /\ IF tunnelURL # EmptyStr THEN ResetCall ELSE UNCHANGED <<attempt, calls>>
            /\ UNCHANGED ret
       ELSE /\ cpc' = "returned"
            /\ ret' = runErr
            /\ UNCHANGED <<attempt, calls>>
    /\ unregistered' = UnregisteredAfterRun
    /\ UNCHANGED <<agentFrame, delay, session, ctxDone, tunnelURL, assignedSubdomain, inbox,
                   sentSubdomain, lastAssigned, runErr, dials, timerFired, streams>>

\* RunWithReconnect: return a nil or permanent error, give up after
\* MaxRetries, or take the next delay and wait
Decide ==
    /\ cpc = "decide"
    /\ IF runErr = NoErr \/ isPermanentError(runErr)
       THEN /\ cpc' = "returned"
            /\ ret' = runErr
            /\ UNCHANGED <<backoffVars, timerFired>>
       ELSE IF MaxRetriesReached
       THEN /\ cpc' = "returned"
            /\ ret' = ErrMaxRetriesExceeded
            /\ UNCHANGED <<backoffVars, timerFired>>
       ELSE /\ NextDelayCall
            /\ cpc' = "select"
            /\ timerFired' = FALSE
            /\ UNCHANGED <<config, ret>>
    /\ UNCHANGED <<agentFrameH, session, ctxDone, tunnelURL, assignedSubdomain, inbox,
                   sentSubdomain, lastAssigned, runErr, dials, streams>>

\* the delay has passed
TimerFires ==
    /\ cpc = "select"
    /\ ~timerFired
    /\ dials < MaxDials
    /\ timerFired' = TRUE
    /\ UNCHANGED <<agentFrameH, backoffVars, cpc, session, ctxDone, tunnelURL, assignedSubdomain,
                   inbox, sentSubdomain, lastAssigned, runErr, ret, dials, streams>>

\* a select that never takes the ctx.Done() case
SelectCtxNever ==
    /\ FALSE
    /\ UNCHANGED vars

\* select: case <-ctx.Done(): return ErrShutdown
SelectCtx ==
    /\ cpc = "select"
    /\ ctxDone
    /\ cpc' = "returned"
    /\ ret' = ErrShutdown
    /\ UNCHANGED <<agentFrameH, backoffVars, session, ctxDone, tunnelURL, assignedSubdomain,
                   inbox, sentSubdomain, lastAssigned, runErr, dials, timerFired, streams>>

\* select: case <-time.After(delay): continue with the loop
SelectTimer ==
    /\ cpc = "select"
    /\ timerFired
    /\ cpc' = "top"
    /\ UNCHANGED <<agentFrameH, backoffVars, session, ctxDone, tunnelURL, assignedSubdomain,
                   inbox, sentSubdomain, lastAssigned, runErr, ret, dials, timerFired, streams>>

\* the caller cancels the context
Cancel ==
    /\ ~ctxDone
    /\ cpc # "returned"
    /\ ctxDone' = TRUE
    /\ UNCHANGED <<agentFrameH, backoffVars, cpc, session, tunnelURL, assignedSubdomain, inbox,
                   sentSubdomain, lastAssigned, runErr, ret, dials, timerFired, streams>>

\* go func() { <-ctx.Done(); session.Close() }()
WatcherClose ==
    /\ ctxDone
    /\ session = "open"
    /\ session' = "closed"
    /\ UNCHANGED <<agentFrameH, backoffVars, cpc, ctxDone, tunnelURL, assignedSubdomain, inbox,
                   sentSubdomain, lastAssigned, runErr, ret, dials, timerFired, streams>>

\* the session ends for another reason: the edge closes it, the connection
\* is lost or a keepalive fails
SessionFails ==
    /\ session = "open"
    /\ ~ctxDone
    /\ session' = "closed"
    /\ UNCHANGED <<agentFrameH, backoffVars, cpc, ctxDone, tunnelURL, assignedSubdomain, inbox,
                   sentSubdomain, lastAssigned, runErr, ret, dials, timerFired, streams>>

\* no agent is running and no function has been called
AgentIdle ==
    /\ callErrs = <<>>
    /\ ferr = <<"pending">>
    /\ config = DefaultBackoffConfig
    /\ attempt = 0
    /\ delay = 0
    /\ calls = 0
    /\ reconnect = TRUE
    /\ subdomain = EmptyStr
    /\ listening = FALSE
    /\ RunNotStarted
    /\ AuxIdle
    /\ FnIdle

\* ------------------------------------------------------------ the registry
\* a lock that excludes nobody
MuNeverHeld == TRUE

\* sync.RWMutex: Lock and RLock wait while a writer holds the lock
MuFree == mu = 0

\* a lookup that ignores the subdomain and returns whichever tunnel exists
LookupAnyTunnel(sd) ==
    IF \E s \in DOMAIN clients : clients[s] # NoClient
    THEN clients[CHOOSE s \in DOMAIN clients : clients[s] # NoClient]
    ELSE NoClient

\* s.clients[subdomain]: nil for a key the map does not hold
Lookup(sd) == IF sd \in DOMAIN clients THEN clients[sd] ELSE NoClient

\* a policy that accepts every host with a subdomain
hostPolicyAnySubdomain(host) == extractSubdomain(host) # EmptyStr

\* hostPolicy(ctx, host) returns nil
hostPolicy(host) ==
    LET sd == extractSubdomain(host)
    IN sd # EmptyStr /\ Lookup(sd) # NoClient

\* the certificate manager asks hostPolicy about a host; the registry is read
\* under the read lock
HostPolicyCall ==
    \E h \in Hosts :
        /\ extractSubdomain(h) = EmptyStr \/ mu = 0
        /\ policy' = [host |-> h, ok |-> hostPolicy(h)]
        /\ UNCHANGED <<edgeVars, spliceVars, callErrs, ferr, backoffVars, optionVars, runVars,
                       errVars, codecVars, xhost, xsub, auxVars>>

\* an authentication that only asks for a token to be present
AuthOKAnyToken(tok) == apiKeys = {} \/ tok # ""

\* authentication of a register message against Server.apiKeys
AuthOK(tok) == apiKeys = {} \/ (tok # "" /\ tok \in apiKeys)

\* a write on the control stream succeeds while the session is open
SendOK(c) == sess[c] = "open"

\* the error is sent and the session left open
SendErrorNoClose(c, msg) ==
    /\ reply' = [reply EXCEPT ![c] = msg]
    /\ delivered' = [delivered EXCEPT ![c] = sess[c] = "open"]
    /\ sess' = sess
    /\ hpc' = [hpc EXCEPT ![c] = "done"]

\* controlStream.SendError(msg); session.Close(); return
SendErrorAndClose(c, msg) ==
    /\ reply' = [reply EXCEPT ![c] = msg]
    /\ delivered' = [delivered EXCEPT ![c] = SendOK(c)]
    /\ sess' = [sess EXCEPT ![c] = "closed"]
    /\ hpc' = [hpc EXCEPT ![c] = "done"]

\* ------------------------------------------- handleTunnelClient, per conn
\* acceptTunnelClients: Accept, go handleTunnelClient; yamux.Server(conn, nil)
Connect(c) ==
    /\ hpc[c] = "idle"
    /\ sess' = [sess EXCEPT ![c] = "open"]
    /\ hpc' = [hpc EXCEPT ![c] = "accept"]
    /\ UNCHANGED <<apiKeys, mu, clients, sub, token, reply, delivered, lastHeartbeat, now, req, spliceVars, agentVars>>

\* session.AcceptStream(): the control stream, or an error on a dead session
AcceptStream(c) ==
    /\ hpc[c] = "accept"
    /\ \/ /\ sess[c] = "open"
          /\ hpc' = [hpc EXCEPT ![c] = "read"]
          /\ UNCHANGED sess
       \/ /\ sess[c] = "closed"
          /\ sess' = [sess EXCEPT ![c] = "closed"]
          /\ hpc' = [hpc EXCEPT ![c] = "done"]
    /\ UNCHANGED <<apiKeys, mu, clients, sub, token, reply, delivered, lastHeartbeat, now, req, spliceVars, agentVars>>

\* the first ReadMessage and the checks on it, up to the registry lock
ReadRegister(c) ==
    /\ hpc[c] = "read"
    /\ \/ /\ sess[c] = "closed"                     \* read error
          /\ SendErrorAndClose(c, ErrRead)
          /\ UNCHANGED <<sub, token>>
       \/ /\ sess[c] = "open"
          /\ \E m \in WireMsgs :
                /\ ReadMessageFails(m)               \* unknown message type
                /\ SendErrorAndClose(c, ErrRead)
          /\ UNCHANGED <<sub, token>>
       \/ /\ sess[c] = "open"
          /\ \E m \in WireMsgs :
                /\ ~ReadMessageFails(m)
                /\ m.type # TypeRegister
                /\ SendErrorAndClose(c, ErrExpected)
          /\ UNCHANGED <<sub, token>>
       \/ /\ sess[c] = "open"
          /\ \E m \in RegisterMsgs :
                /\ ~AuthOK(m.token)
                /\ token' = [token EXCEPT ![c] = m.token]
                /\ SendErrorAndClose(c, ErrAuth)
          /\ UNCHANGED sub
       \/ /\ sess[c] = "open"
          /\ \E m \in RegisterMsgs :
                /\ AuthOK(m.token)
                /\ \E sd \in (IF m.subdomain = EmptyStr THEN generateSubdomain
                                                        ELSE {m.subdomain}) :
                      sub' = [sub EXCEPT ![c] = sd]
                /\ token' = [token EXCEPT ![c] = m.token]
                /\ hpc' = [hpc EXCEPT ![c] = "lock"]
                /\ UNCHANGED <<sess, reply, delivered>>
    /\ UNCHANGED <<apiKeys, mu, clients, lastHeartbeat, now, req, spliceVars, agentVars>>

\* s.mu.Lock()
Lock(c) ==
    /\ hpc[c] = "lock"
    /\ MuFree
    /\ mu' = c
    /\ hpc' = [hpc EXCEPT ![c] = "check"]
    /\ UNCHANGED <<apiKeys, clients, sub, token, sess, reply, delivered, lastHeartbeat, now, req, spliceVars, agentVars>>

\* if _, exists := s.clients[subdomain]; exists { s.mu.Unlock(); ... }
CheckExists(c) ==
    /\ hpc[c] = "check"
    /\ \/ /\ Lookup(sub[c]) # NoClient
          /\ mu' = 0
          /\ hpc' = [hpc EXCEPT ![c] = "reject"]
       \/ /\ Lookup(sub[c]) = NoClient
          /\ mu' = mu
          /\ hpc' = [hpc EXCEPT ![c] = "insert"]
    /\ UNCHANGED <<apiKeys, clients, sub, token, sess, reply, delivered, lastHeartbeat, now, req, spliceVars, agentVars>>

\* a rejection that cleans up like the failed SendRegistered does: it also
\* deletes the registry entry of the subdomain
RejectAndRemove(c) ==
    /\ hpc[c] = "reject"
    /\ mu = 0
    /\ reply' = [reply EXCEPT ![c] = ErrInUse]
    /\ delivered' = [delivered EXCEPT ![c] = sess[c] = "open"]
    /\ sess' = [sess EXCEPT ![c] = "closed"]
    /\ hpc' = [hpc EXCEPT ![c] = "done"]
    /\ clients' = [clients EXCEPT ![sub[c]] = NoClient]
    /\ UNCHANGED <<apiKeys, mu, sub, token, lastHeartbeat, now, req, spliceVars, agentVars>>

\* SendError("subdomain ... is already in use"); session.Close(); return
Reject(c) ==
    /\ hpc[c] = "reject"
    /\ SendErrorAndClose(c, ErrInUse)
    /\ UNCHANGED <<apiKeys, mu, clients, sub, token, lastHeartbeat, now, req, spliceVars, agentVars>>

\* a handler that sends registered without having inserted the tunnel
InsertSkipped(c) ==
    /\ hpc[c] = "insert"
    /\ mu' = 0
    /\ hpc' = [hpc EXCEPT ![c] = "send"]
    /\ UNCHANGED <<apiKeys, clients, sub, token, sess, reply, delivered, lastHeartbeat, now, req, spliceVars, agentVars>>

\* client := &tunnelClient{...}; s.clients[subdomain] = client; s.mu.Unlock()
Insert(c) ==
    /\ hpc[c] = "insert"
    /\ clients' = [clients EXCEPT ![sub[c]] = c]
    /\ lastHeartbeat' = [lastHeartbeat EXCEPT ![c] = now]
    /\ mu' = 0
    /\ hpc' = [hpc EXCEPT ![c] = "send"]
    /\ UNCHANGED <<apiKeys, sub, token, sess, reply, delivered, now, req, spliceVars, agentVars>>

\* a failed send that returns without s.removeClient(subdomain)
SendRegisteredNoCleanup(c) ==
    /\ hpc[c] = "send"
    /\ reply' = [reply EXCEPT ![c] = TypeRegistered]
    /\ delivered' = [delivered EXCEPT ![c] = sess[c] = "open"]
    /\ hpc' = [hpc EXCEPT ![c] = IF sess[c] = "open" THEN "loop" ELSE "sendFailedClose"]
    /\ UNCHANGED <<apiKeys, mu, clients, sub, token, sess, lastHeartbeat, now, req, spliceVars, agentVars>>

\* controlStream.SendRegistered(url, subdomain)
SendRegistered(c) ==
    /\ hpc[c] = "send"
    /\ reply' = [reply EXCEPT ![c] = TypeRegistered]
    /\ delivered' = [delivered EXCEPT ![c] = SendOK(c)]
    /\ hpc' = [hpc EXCEPT ![c] = IF SendOK(c) THEN "loop" ELSE "sendFailed"]
    /\ UNCHANGED <<apiKeys, mu, clients, sub, token, sess, lastHeartbeat, now, req, spliceVars, agentVars>>

\* a removeClient that deletes nothing
removeClientNoDelete(sd) ==
    /\ mu = 0
    /\ clients' = clients
    /\ mu' = mu

\* a removeClient that clears the whole registry
removeClientAll(sd) ==
    /\ MuFree
    /\ clients' = [s \in Subdomains |-> NoClient]
    /\ mu' = mu

\* removeClient: s.mu.Lock(); delete(s.clients, subdomain); s.mu.Unlock()
removeClient(sd) ==
    /\ MuFree
    /\ clients' = [clients EXCEPT ![sd] = NoClient]
    /\ mu' = mu

\* the failed SendRegistered: s.removeClient(subdomain), then session.Close()
SendFailedRemove(c) ==
    /\ hpc[c] = "sendFailed"
    /\ removeClient(sub[c])
    /\ hpc' = [hpc EXCEPT ![c] = "sendFailedClose"]
    /\ UNCHANGED <<apiKeys, sub, token, sess, reply, delivered, lastHeartbeat, now, req, spliceVars, agentVars>>

SendFailedClose(c) ==
    /\ hpc[c] = "sendFailedClose"
    /\ sess' = [sess EXCEPT ![c] = "closed"]
    /\ hpc' = [hpc EXCEPT ![c] = "done"]
    /\ UNCHANGED <<apiKeys, mu, clients, sub, token, reply, delivered, lastHeartbeat, now, req, spliceVars, agentVars>>

\* ------------------------------------------- handleControlStream, per conn
\* one ReadMessage of the control loop and the switch on its result
ControlRead(c) ==
    /\ hpc[c] = "loop"
    /\ \/ /\ sess[c] = "closed"                     \* read error: return
          /\ hpc' = [hpc EXCEPT ![c] = "deferClose"]
          /\ UNCHANGED lastHeartbeat
       \/ /\ sess[c] = "open"
          /\ \E m \in WireMsgs : ReadMessageFails(m)
          /\ hpc' = [hpc EXCEPT ![c] = "deferClose"]
          /\ UNCHANGED lastHeartbeat
       \/ /\ sess[c] = "open"                       \* case *HeartbeatMessage
          /\ lastHeartbeat' = [lastHeartbeat EXCEPT ![c] = now]
          /\ hpc' = [hpc EXCEPT ![c] = "ack"]
       \/ /\ sess[c] = "open"                       \* default
          /\ \E m \in WireMsgs : ~ReadMessageFails(m) /\ m.type # TypeHeartbeat
          /\ hpc' = [hpc EXCEPT ![c] = "logged"]
          /\ UNCHANGED lastHeartbeat
    /\ UNCHANGED <<apiKeys, mu, clients, sub, token, sess, reply, delivered, now, req, spliceVars, agentVars>>

\* a control loop that returns on a message that is not a heartbeat
LogUnexpectedAndReturn(c) ==
    /\ hpc[c] = "logged"
    /\ hpc' = [hpc EXCEPT ![c] = "deferClose"]
    /\ UNCHANGED <<apiKeys, mu, clients, sub, token, sess, reply, delivered, lastHeartbeat, now, req, spliceVars, agentVars>>

\* default: slog.Warn("unexpected message type"), and the loop goes on
LogUnexpected(c) ==
    /\ hpc[c] = "logged"
    /\ hpc' = [hpc EXCEPT ![c] = "loop"]
    /\ UNCHANGED <<apiKeys, mu, clients, sub, token, sess, reply, delivered, lastHeartbeat, now, req, spliceVars, agentVars>>

\* client.controlStream.SendHeartbeatAck()
SendHeartbeatAck(c) ==
    /\ hpc[c] = "ack"
    /\ \/ /\ SendOK(c)
          /\ hpc' = [hpc EXCEPT ![c] = "loop"]
       \/ /\ ~SendOK(c)
          /\ hpc' = [hpc EXCEPT ![c] = "deferClose"]
    /\ UNCHANGED <<apiKeys, mu, clients, sub, token, sess, reply, delivered, lastHeartbeat, now, req, spliceVars, agentVars>>

\* defer client.session.Close(): runs first
DeferClose(c) ==
    /\ hpc[c] = "deferClose"
    /\ sess' = [sess EXCEPT ![c] = "closed"]
    /\ hpc' = [hpc EXCEPT ![c] = "deferRemove"]
    /\ UNCHANGED <<apiKeys, mu, clients, sub, token, reply, delivered, lastHeartbeat, now, req, spliceVars, agentVars>>

\* defer s.removeClient(client.subdomain): runs last
DeferRemove(c) ==
    /\ hpc[c] = "deferRemove"
    /\ removeClient(sub[c])
    /\ hpc' = [hpc EXCEPT ![c] = "done"]
    /\ UNCHANGED <<apiKeys, sub, token, sess, reply, delivered, lastHeartbeat, now, req, spliceVars, agentVars>>

\* ------------------------------------------------------------- the agent
\* the agent cancels or crashes, or the transport is lost: the session ends
AgentClose(c) ==
    /\ sess[c] = "open"
    /\ sess' = [sess EXCEPT ![c] = "closed"]
    /\ UNCHANGED <<apiKeys, mu, clients, hpc, sub, token, reply, delivered, lastHeartbeat, now, req, spliceVars, agentVars>>

\* ------------------------------------------------- ServeHTTP, per request
\* http.Error(w, ..., code); return
HttpError(r, h, code) ==
    req' = [req EXCEPT ![r] = [@ EXCEPT !.host = h, !.status = code, !.pc = "done"]]

\* from the Host header to the registry lookup under the read lock
Route(r) ==
    /\ req[r].pc = "new"
    /\ \E h \in Hosts :
          \/ /\ extractSubdomain(h) = EmptyStr
             /\ HttpError(r, h, StatusBadRequest)
          \/ /\ extractSubdomain(h) # EmptyStr
             /\ MuFree
             /\ Lookup(extractSubdomain(h)) = NoClient
             /\ HttpError(r, h, StatusNotFound)
          \/ /\ extractSubdomain(h) # EmptyStr
             /\ MuFree
             /\ Lookup(extractSubdomain(h)) # NoClient
             /\ req' = [req EXCEPT ![r] = [@ EXCEPT !.host = h,
                                                   !.client = Lookup(extractSubdomain(h)),
                                                   !.pc = "open"]]
    /\ UNCHANGED <<ctlVars, now, spliceVars, agentVars>>

\* a request that opens its stream on whichever tunnel holds the subdomain
\* when the stream is opened, not on the tunnel it looked up
OpenStreamOnHolder(r) ==
    LET now2 == Lookup(extractSubdomain(req[r].host))
        cl   == IF now2 = NoClient THEN req[r].client ELSE now2
    IN  /\ req[r].pc = "open"
        /\ \/ /\ sess[cl] # "open"
              /\ HttpError(r, req[r].host, StatusBadGateway)
           \/ /\ sess[cl] = "open"
              /\ req' = [req EXCEPT ![r] = [@ EXCEPT !.stream = "open",
                                                    !.streamOn = cl,
                                                    !.conn = "hijacked",
                                                    !.pc = "write"]]
        /\ UNCHANGED <<ctlVars, now, spliceVars, agentVars>>

\* client.session.OpenStream(), which fails on a closed session, then
\* w.(http.Hijacker) and hijacker.Hijack(); when the hijack fails: 500 and the
\* deferred stream.Close()
OpenStream(r) ==
    /\ req[r].pc = "open"
    /\ \/ /\ sess[req[r].client] # "open"
          /\ HttpError(r, req[r].host, StatusBadGateway)
       \/ /\ sess[req[r].client] = "open"
          /\ req' = [req EXCEPT ![r] = [@ EXCEPT !.stream = "open",
                                                !.streamOn = req[r].client,
                                                !.conn = "hijacked",
                                                !.pc = "write"]]
       \/ /\ sess[req[r].client] = "open"
          /\ req' = [req EXCEPT ![r] = [@ EXCEPT !.stream = "closed",
                                                !.streamOn = req[r].client,
                                                !.status = StatusInternalServerError,
                                                !.pc = "done"]]
    /\ UNCHANGED <<ctlVars, now, spliceVars, agentVars>>

\* a failed r.Write(stream) that returns with nothing deferred
WriteRequestLeaks(r) ==
    /\ req[r].pc = "write"
    /\ \/ /\ sess[req[r].streamOn] = "open"
          /\ req' = [req EXCEPT ![r] = [@ EXCEPT !.sent = TRUE, !.pc = "splice"]]
       \/ /\ sess[req[r].streamOn] # "open"
          /\ req' = [req EXCEPT ![r] = [@ EXCEPT !.pc = "done"]]
    /\ UNCHANGED <<ctlVars, now, spliceVars, agentVars>>

\* r.Write(stream) and the buffered bytes; on failure return, and the
\* deferred clientConn.Close() and stream.Close() run
WriteRequest(r) ==
    /\ req[r].pc = "write"
    /\ \/ /\ sess[req[r].streamOn] = "open"
          /\ req' = [req EXCEPT ![r] = [@ EXCEPT !.sent = TRUE, !.pc = "splice"]]
       \/ /\ sess[req[r].streamOn] # "open"
          /\ req' = [req EXCEPT ![r] = [@ EXCEPT !.stream = "closed", !.conn = "closed",
                                                !.pc = "done"]]
    /\ UNCHANGED <<ctlVars, now, spliceVars, agentVars>>

\* proxy.Bidirectional(clientConn, stream) returns; both ends are closed
SpliceReturns(r) ==
    /\ req[r].pc = "splice"
    /\ req' = [req EXCEPT ![r] = [@ EXCEPT !.stream = "closed", !.conn = "closed",
                                          !.pc = "done"]]
    /\ UNCHANGED <<ctlVars, now, spliceVars, agentVars>>

ServeHTTP(r) ==
    \/ Route(r)
    \/ OpenStream(r)
    \/ WriteRequest(r)
    \/ SpliceReturns(r)

\* ------------------------------------------------------------- the clock
Tick ==
    /\ now < MaxTicks
    /\ now' = now + 1
    /\ UNCHANGED <<ctlVars, req, spliceVars, agentVars>>

HandlerStep(c) ==
    \/ Connect(c)
    \/ AcceptStream(c)
    \/ ReadRegister(c)
    \/ Lock(c)
    \/ CheckExists(c)
    \/ Reject(c)
    \/ Insert(c)
    \/ SendRegistered(c)
    \/ SendFailedRemove(c)
    \/ SendFailedClose(c)
    \/ ControlRead(c)
    \/ LogUnexpected(c)
    \/ SendHeartbeatAck(c)
    \/ DeferClose(c)
    \/ DeferRemove(c)

\* ------------------------------------------------------------ the splice
\* an error is its chain of wrapped errors, outermost first; nil is <<>>
Nil == <<>>
EOF == <<"EOF">>
ErrReset == <<"connection reset">>
ErrWrappedEOF == <<"read failed", "EOF">>
ErrWrite == <<"broken pipe">>
ReadErrs == {ErrReset, ErrWrappedEOF}

\* a comparison with io.EOF that does not unwrap
IsEOFNoUnwrap(e) == e = <<"EOF">>

\* errors.Is(err, io.EOF): some error of the chain is io.EOF
IsEOF(e) == \E i \in 1..Len(e) : e[i] = "EOF"

\* firstError: the first error that is neither nil nor EOF, else nil
RECURSIVE firstError(_)
firstError(errs) ==
    IF errs = <<>> THEN Nil
    ELSE IF Head(errs) # Nil /\ ~IsEOF(Head(errs)) THEN Head(errs)
    ELSE firstError(Tail(errs))

Ends == {1, 2}
Other(d) == 3 - d
\* the splice never looks into the bytes it copies: the k-th byte written
\* into end i is the number 10 * i + k, so every byte in flight is distinct
ByteOf(i, k) == 10 * i + k
Pending == <<"pending">>
\* the read side of a connection: the peer may still write, or has closed
ReadOpen == <<"open">>
ReadEOF == <<"eof">>

SpliceInit ==
    /\ hc \in [Ends -> BOOLEAN]
    /\ pin = [i \in Ends |-> <<>>]
    /\ pend = [i \in Ends |-> ReadOpen]
    /\ wfail = [i \in Ends |-> FALSE]
    /\ rpos = [i \in Ends |-> 0]
    /\ pout = [i \in Ends |-> <<>>]
    /\ cw = [i \in Ends |-> FALSE]
    /\ closed = [i \in Ends |-> FALSE]
    /\ gpc = [d \in Ends |-> "read"]
    /\ buf = [d \in Ends |-> <<>>]
    /\ cerr = [d \in Ends |-> Nil]
    /\ mpc = "wait"
    /\ result = Pending

\* no splice is running
SpliceIdle ==
    /\ SpliceInit
    /\ hc = [i \in Ends |-> FALSE]

\* io.Copy(dst, src): one Read of the source
CopyRead(d) ==
    /\ gpc[d] = "read"
    /\ \/ /\ rpos[d] < Len(pin[d])                      \* n > 0 bytes
          /\ \E n \in 1..(Len(pin[d]) - rpos[d]) :
                /\ buf' = [buf EXCEPT ![d] = SubSeq(pin[d], rpos[d] + 1, rpos[d] + n)]
                /\ rpos' = [rpos EXCEPT ![d] = @ + n]
          /\ gpc' = [gpc EXCEPT ![d] = "write"]
          /\ cerr' = cerr
       \/ /\ rpos[d] = Len(pin[d])                      \* io.EOF: Copy returns nil
          /\ pend[d] = ReadEOF
          /\ gpc' = [gpc EXCEPT ![d] = "closeWrite"]
          /\ cerr' = [cerr EXCEPT ![d] = Nil]
          /\ UNCHANGED <<buf, rpos>>
       \/ /\ pend[d] \in ReadErrs                       \* Copy returns the read error
          /\ gpc' = [gpc EXCEPT ![d] = "closeWrite"]
          /\ cerr' = [cerr EXCEPT ![d] = pend[d]]
          /\ UNCHANGED <<buf, rpos>>
    /\ UNCHANGED <<edgeVars, agentVars, hc, pin, pend, wfail, pout, cw, closed, mpc, result>>

\* a Write that reports success and writes nothing
CopyWriteDropsChunk(d) ==
    /\ gpc[d] = "write"
    /\ gpc' = [gpc EXCEPT ![d] = "read"]
    /\ buf' = [buf EXCEPT ![d] = <<>>]
    /\ UNCHANGED <<edgeVars, agentVars, hc, pin, pend, wfail, rpos, pout, cw, closed, cerr, mpc, result>>

\* a write error that also stops the copy of the opposite direction
CopyWriteCancelsOther(d) ==
    /\ gpc[d] = "write"
    /\ \/ /\ ~wfail[Other(d)]
          /\ pout' = [pout EXCEPT ![Other(d)] = @ \o buf[d]]
          /\ gpc' = [gpc EXCEPT ![d] = "read"]
          /\ cerr' = cerr
       \/ /\ wfail[Other(d)]
          /\ pout' = pout
          /\ gpc' = [e \in Ends |-> "closeWrite"]
          /\ cerr' = [cerr EXCEPT ![d] = ErrWrite]
    /\ buf' = [buf EXCEPT ![d] = <<>>]
    /\ UNCHANGED <<edgeVars, agentVars, hc, pin, pend, wfail, rpos, cw, closed, mpc, result>>

\* io.Copy(dst, src): the Write of the chunk to the destination
CopyWrite(d) ==
    /\ gpc[d] = "write"
    /\ \/ /\ ~wfail[Other(d)]
          /\ pout' = [pout EXCEPT ![Other(d)] = @ \o buf[d]]
          /\ gpc' = [gpc EXCEPT ![d] = "read"]
          /\ cerr' = cerr
       \/ /\ wfail[Other(d)]                            \* Copy returns the write error
          /\ pout' = pout
          /\ gpc' = [gpc EXCEPT ![d] = "closeWrite"]
          /\ cerr' = [cerr EXCEPT ![d] = ErrWrite]
    /\ buf' = [buf EXCEPT ![d] = <<>>]
    /\ UNCHANGED <<edgeVars, agentVars, hc, pin, pend, wfail, rpos, cw, closed, mpc, result>>

\* a goroutine that ends without the closeWrite call
closeWriteSkipped(d) ==
    /\ gpc[d] = "closeWrite"
    /\ gpc' = [gpc EXCEPT ![d] = "done"]
    /\ UNCHANGED <<edgeVars, agentVars, hc, pin, pend, wfail, rpos, pout, cw, closed, buf, cerr, mpc, result>>

\* closeWrite(dst): CloseWrite when dst is a halfCloser; then wg.Done()
closeWrite(d) ==
    /\ gpc[d] = "closeWrite"
    /\ cw' = [cw EXCEPT ![Other(d)] = hc[Other(d)]]
    /\ gpc' = [gpc EXCEPT ![d] = "done"]
    /\ UNCHANGED <<edgeVars, agentVars, hc, pin, pend, wfail, rpos, pout, closed, buf, cerr, mpc, result>>

\* wg.Wait() returns once both goroutines have called wg.Done()
WaitOneOnly == \E d \in Ends : gpc[d] = "done"

WaitReturns == \A d \in Ends : gpc[d] = "done"

Wait ==
    /\ mpc = "wait"
    /\ WaitReturns
    /\ mpc' = "close1"
    /\ UNCHANGED <<edgeVars, agentVars, hc, pin, pend, wfail, rpos, pout, cw, closed, gpc, buf, cerr, result>>

\* conn1.Close()
Close1 ==
    /\ mpc = "close1"
    /\ closed' = [closed EXCEPT ![1] = TRUE]
    /\ mpc' = "close2"
    /\ UNCHANGED <<edgeVars, agentVars, hc, pin, pend, wfail, rpos, pout, cw, gpc, buf, cerr, result>>

\* conn2.Close()
Close2 ==
    /\ mpc = "close2"
    /\ closed' = [closed EXCEPT ![2] = TRUE]
    /\ mpc' = "return"
    /\ UNCHANGED <<edgeVars, agentVars, hc, pin, pend, wfail, rpos, pout, cw, gpc, buf, cerr, result>>

\* return firstError(err1, err2)
Return ==
    /\ mpc = "return"
    /\ result' = firstError(<<cerr[1], cerr[2]>>)
    /\ mpc' = "returned"
    /\ UNCHANGED <<edgeVars, agentVars, hc, pin, pend, wfail, rpos, pout, cw, closed, gpc, buf, cerr>>

\* the peers behind the two connections, while the connections exist
PeerWrite(i) ==
    /\ ~closed[i]
    /\ pend[i] = ReadOpen
    /\ Len(pin[i]) < MaxBytes
    /\ pin' = [pin EXCEPT ![i] = Append(@, ByteOf(i, Len(@) + 1))]
    /\ UNCHANGED <<edgeVars, agentVars, hc, pend, wfail, rpos, pout, cw, closed, gpc, buf, cerr, mpc, result>>

PeerCloseWrite(i) ==
    /\ ~closed[i]
    /\ pend[i] = ReadOpen
    /\ pend' = [pend EXCEPT ![i] = ReadEOF]
    /\ UNCHANGED <<edgeVars, agentVars, hc, pin, wfail, rpos, pout, cw, closed, gpc, buf, cerr, mpc, result>>

\* the connection breaks: reads and writes fail from now on
PeerReset(i) ==
    /\ ~closed[i]
    /\ pend[i] = ReadOpen
    /\ \E e \in ReadErrs : pend' = [pend EXCEPT ![i] = e]
    /\ wfail' = [wfail EXCEPT ![i] = TRUE]
    /\ UNCHANGED <<edgeVars, agentVars, hc, pin, rpos, pout, cw, closed, gpc, buf, cerr, mpc, result>>

\* the peer stops reading: writes to the connection fail, reads still work
PeerStopsReading(i) ==
    /\ ~closed[i]
    /\ ~wfail[i]
    /\ wfail' = [wfail EXCEPT ![i] = TRUE]
    /\ UNCHANGED <<edgeVars, agentVars, hc, pin, pend, rpos, pout, cw, closed, gpc, buf, cerr, mpc, result>>

\* a splice that has returned: both peers had closed without writing
SpliceReturned ==
    /\ hc = [i \in Ends |-> FALSE]
    /\ pin = [i \in Ends |-> <<>>]
    /\ pend = [i \in Ends |-> ReadEOF]
    /\ wfail = [i \in Ends |-> FALSE]
    /\ rpos = [i \in Ends |-> 0]
    /\ pout = [i \in Ends |-> <<>>]
    /\ cw = [i \in Ends |-> FALSE]
    /\ closed = [i \in Ends |-> TRUE]
    /\ gpc = [d \in Ends |-> "done"]
    /\ buf = [d \in Ends |-> <<>>]
    /\ cerr = [d \in Ends |-> Nil]
    /\ mpc = "returned"
    /\ result = Nil

\* the errors a caller may pass to firstError, and the argument lists
Errs == {Nil, EOF, ErrReset, ErrWrappedEOF, ErrWrite}
ErrLists == UNION {[1..n -> Errs] : n \in 0..MaxErrs}

\* a call firstError(callErrs...)
CallFirstError ==
    /\ ferr = Pending
    /\ ferr' = firstError(callErrs)
    /\ UNCHANGED <<edgeVars, spliceVars, callErrs, backoffVars, optionVars, runVars, fnVars>>

Bidirectional ==
    \/ \E d \in Ends : CopyRead(d)
    \/ \E d \in Ends : CopyWrite(d)
    \/ \E d \in Ends : closeWrite(d)
    \/ Wait
    \/ Close1
    \/ Close2
    \/ Return

Peers ==
    \/ \E i \in Ends : PeerWrite(i)
    \/ \E i \in Ends : PeerCloseWrite(i)
    \/ \E i \in Ends : PeerReset(i)
    \/ \E i \in Ends : PeerStopsReading(i)

ControlNext ==
    \/ \E c \in Conns : HandlerStep(c)
    \/ \E c \in Conns : AgentClose(c)

PublicNext == \E r \in Reqs : ServeHTTP(r)

\* the control plane of the edge
Init == EdgeInit /\ SpliceIdle /\ AgentIdle
Next == ControlNext
Spec == Init /\ [][Next]_vars

\* the control plane and the certificate manager's host policy
PolicyNext == ControlNext \/ HostPolicyCall
PolicySpec == Init /\ [][PolicyNext]_vars

\* the edge with its public listener, authentication configured
RouteInit == EdgeInit /\ apiKeys = {"k1"} /\ SpliceIdle /\ AgentIdle
RouteNext == ControlNext \/ PublicNext
RouteSpec == RouteInit /\ [][RouteNext]_vars

\* one splice on its own
SpliceSpecInit == EdgeInit /\ apiKeys = {} /\ SpliceInit /\ AgentIdle
SpliceNext == Bidirectional \/ Peers
SpliceSpec == SpliceSpecInit /\ [][SpliceNext]_vars

\* firstError: called on its own with every argument list up to MaxErrs
\* errors, and called by a splice with err1 and err2
FirstErrorInit ==
    /\ EdgeInit /\ apiKeys = {}
    /\ ferr = Pending
    /\ config = DefaultBackoffConfig /\ attempt = 0 /\ delay = 0 /\ calls = 0
    /\ reconnect = TRUE /\ subdomain = EmptyStr /\ listening = FALSE
    /\ RunNotStarted
    /\ AuxIdle
    /\ FnIdle
    /\ \/ SpliceReturned /\ callErrs \in ErrLists
       \/ SpliceInit /\ callErrs = <<>>
FirstErrorNext == CallFirstError \/ SpliceNext
FirstErrorSpec == FirstErrorInit /\ [][FirstErrorNext]_vars

\* a Backoff on its own: NewBackoff(config), then NextDelay and Reset
BackoffInit ==
    /\ EdgeInit /\ apiKeys = {}
    /\ SpliceIdle
    /\ callErrs = <<>> /\ ferr = Pending
    /\ config \in BackoffConfig
    /\ attempt = 0 /\ delay = 0 /\ calls = 0
    /\ reconnect = TRUE /\ subdomain = EmptyStr /\ listening = FALSE
    /\ RunNotStarted
    /\ AuxIdle
    /\ FnIdle
BackoffNext == NextDelay \/ Reset
BackoffSpec == BackoffInit /\ [][BackoffNext]_vars

\* the backoff configurations of the agent specification
AgentConfigs ==
    [InitialDelay : {8}, MaxDelay : {10}, Multiplier : {4}, Jitter : {0, 25},
     MaxRetries : 0..MaxRetriesBound]

AgentInit ==
    /\ EdgeInit
    /\ apiKeys = {}
    /\ SpliceIdle
    /\ callErrs = <<>>
    /\ ferr = Pending
    /\ config \in AgentConfigs
    /\ attempt = 0 /\ delay = 0 /\ calls = 0
    /\ reconnect \in BOOLEAN
    /\ subdomain \in {EmptyStr, SubA}
    /\ listening \in BOOLEAN
    /\ RunNotStarted
    /\ AuxIdle
    /\ FnIdle

\* the steps of the goroutine that called RunWithReconnect
AgentStep ==
    \/ Start
    \/ LoopTop
    \/ Dial
    \/ NewSession
    \/ OpenControlStream
    \/ SendRegister
    \/ ReadAnswer
    \/ AcceptFails
    \/ CheckCtx
    \/ AfterRun
    \/ Decide
    \/ SelectCtx
    \/ SelectTimer

AgentNext ==
    \/ AgentStep
    \/ AcceptDataStream
    \/ EdgeAnswer
    \/ TimerFires
    \/ Cancel
    \/ WatcherClose
    \/ SessionFails

\* the goroutine keeps running, a ready ctx.Done() case is taken, the
\* watcher goroutine runs and delays pass
AgentSpec ==
    /\ AgentInit
    /\ [][AgentNext]_vars
    /\ WF_vars(AgentStep)
    /\ WF_vars(WatcherClose)
    /\ WF_vars(TimerFires)

ErrorsInit ==
    /\ EdgeInit
    /\ apiKeys = {}
    /\ SpliceIdle
    /\ callErrs = <<>>
    /\ ferr = Pending
    /\ config = DefaultBackoffConfig
    /\ attempt = 0 /\ delay = 0 /\ calls = 0
    /\ reconnect = TRUE /\ subdomain = EmptyStr /\ listening = FALSE
    /\ RunNotStarted
    /\ AuxIdle
    /\ perr \in BaseErrs
    /\ pbase = perr
    /\ pkeeps = TRUE
    /\ isPerm = <<>>
    /\ CodecIdle
    /\ HostIdle

ErrorsNext ==
    \/ WrapW
    \/ WrapV
    \/ CallIsPermanentError

ErrorsSpec == ErrorsInit /\ [][ErrorsNext]_vars

CodecInit ==
    /\ EdgeInit
    /\ apiKeys = {}
    /\ SpliceIdle
    /\ callErrs = <<>>
    /\ ferr = Pending
    /\ config = DefaultBackoffConfig
    /\ attempt = 0 /\ delay = 0 /\ calls = 0
    /\ reconnect = TRUE /\ subdomain = EmptyStr /\ listening = FALSE
    /\ RunNotStarted
    /\ AuxIdle
    /\ perr = NoErr /\ isPerm = <<>> /\ pbase = NoErr /\ pkeeps = TRUE
    /\ CodecIdle
    /\ HostIdle

CodecNext ==
    \/ Send
    \/ PeerWritesJunk
    \/ PeerCloses
    \/ StreamFails
    \/ ReadMessage

CodecSpec == CodecInit /\ [][CodecNext]_vars

HostInit ==
    /\ EdgeInit
    /\ apiKeys = {}
    /\ SpliceIdle
    /\ callErrs = <<>>
    /\ ferr = Pending
    /\ config = DefaultBackoffConfig
    /\ attempt = 0 /\ delay = 0 /\ calls = 0
    /\ reconnect = TRUE /\ subdomain = EmptyStr /\ listening = FALSE
    /\ RunNotStarted
    /\ AuxIdle
    /\ perr = NoErr /\ isPerm = <<>> /\ pbase = NoErr /\ pkeeps = TRUE
    /\ CodecIdle
    /\ xhost \in AllHosts
    /\ xsub = Pending
    /\ policy = NoPolicy

HostNext == CallExtractSubdomain

HostSpec == HostInit /\ [][HostNext]_vars

\* the control plane with the clock; the scheduler runs every handler goroutine
\* that can take a step on its own (a read on a closed session returns, a
\* read on an open one waits for the agent), and time passes
EdgeProgress(c) ==
    \/ /\ sess[c] = "closed"
       /\ HandlerStep(c)
    \/ Lock(c)
    \/ CheckExists(c)
    \/ Reject(c)
    \/ Insert(c)
    \/ SendRegistered(c)
    \/ SendFailedRemove(c)
    \/ SendFailedClose(c)
    \/ LogUnexpected(c)
    \/ SendHeartbeatAck(c)
    \/ DeferClose(c)
    \/ DeferRemove(c)

LiveInit == EdgeInit /\ apiKeys = {"k1"} /\ SpliceIdle /\ AgentIdle
LiveNext == ControlNext \/ Tick
LiveSpec ==
    /\ LiveInit
    /\ [][LiveNext]_vars
    /\ \A c \in Conns : WF_vars(EdgeProgress(c))
    /\ WF_vars(Tick)

\* Server.Run with its accept goroutine
AcceptInit == Init
AcceptLoop == Accept \/ AcceptError \/ GoHandle
AcceptNext == Listen \/ GoAccept \/ ServeReturns \/ AcceptLoop
AcceptSpec == AcceptInit /\ [][AcceptNext]_vars /\ WF_vars(AcceptLoop)

\* an agent whose RunWithReconnect has not been called
QuietAgent ==
    /\ callErrs = <<>>
    /\ ferr = Pending
    /\ config = DefaultBackoffConfig
    /\ attempt = 0 /\ delay = 0 /\ calls = 0
    /\ reconnect = TRUE /\ subdomain = EmptyStr /\ listening = FALSE
    /\ RunNotStarted
    /\ FnIdle

\* one stream handler of the agent
HandleStreamInit ==
    /\ EdgeInit /\ apiKeys = {}
    /\ SpliceIdle
    /\ QuietAgent
    /\ AcceptIdle
    /\ HandlersIdle
    /\ ReconnIdle
    /\ BeatIdle
    /\ FlowIdle
    /\ StreamInit
HandleStream == ReadString \/ DialLocal \/ WriteRequestLine \/ SetMultiReader \/ CopyToLocal
HandleStreamSpec == HandleStreamInit /\ [][HandleStream]_vars

\* two agents are registered at the edge, under the generated subdomain and
\* under a requested one
EdgeRegistered ==
    /\ apiKeys = {}
    /\ mu = 0
    /\ clients = [sd \in Subdomains |-> IF sd = SubG THEN 1 ELSE IF sd = SubA THEN 2 ELSE NoClient]
    /\ hpc = [c \in Conns |-> "loop"]
    /\ sub = <<SubG, SubA>>
    /\ token \in [Conns -> Tokens]
    /\ sess = [c \in Conns |-> "open"]
    /\ reply = [c \in Conns |-> "registered"]
    /\ delivered = [c \in Conns |-> TRUE]
    /\ lastHeartbeat = [c \in Conns |-> 0]
    /\ now = 0
    /\ req = [r \in Reqs |-> NewReq]

\* the first of them has read its registered reply and is in the accept loop
AgentRegistered ==
    /\ callErrs = <<>>
    /\ ferr = Pending
    /\ config \in AgentConfigs
    /\ attempt = 0 /\ delay = 0 /\ calls = 0
    /\ reconnect \in BOOLEAN
    /\ subdomain = EmptyStr
    /\ listening = TRUE
    /\ cpc = "accept"
    /\ session = "open"
    /\ ctxDone = FALSE
    /\ tunnelURL = URLOf(SubG)
    /\ assignedSubdomain = SubG
    /\ inbox = NoMsg
    /\ sentSubdomain = EmptyStr
    /\ lastAssigned = SubG
    /\ runErr = NotReturned
    /\ ret = NotReturned
    /\ dials = 1
    /\ timerFired = FALSE
    /\ streams = 0
    /\ unregistered = 0
    /\ FnIdle

\* the accept loop of a registered agent with the handlers of its streams
StreamsInit ==
    /\ EdgeRegistered
    /\ SpliceIdle
    /\ AgentRegistered
    /\ AuxIdle
StreamsNext ==
    \/ AcceptDataStream
    \/ AcceptFails
    \/ SessionFails
    \/ \E st \in Streams : HandleStreamOf(st)
StreamsSpec == StreamsInit /\ [][StreamsNext]_vars

\* an agent with unlimited retries that keeps reconnecting to a reachable edge;
\* the goroutines of the agent and of the edge are scheduled
ReconnectInit ==
    /\ EdgeInit /\ apiKeys = {}
    /\ SpliceIdle
    /\ QuietAgent
    /\ AcceptIdle /\ StreamIdle /\ HandlersIdle /\ BeatIdle /\ FlowIdle
    /\ ReconnInit
ReconnectNext == LoseSession \/ ReconnAgent \/ EdgeRegisters \/ EdgeRemovesLost \/ OtherAgent
ReconnectSpec ==
    /\ ReconnectInit
    /\ [][ReconnectNext]_vars
    /\ WF_vars(ReconnAgent)
    /\ WF_vars(EdgeRegisters)
    /\ WF_vars(EdgeRemovesLost)

\* a Client that reconnects, with the heartbeat senders its attempts start
BeatInit == Init
BeatNext ==
    \/ RunDial \/ RunOpenControl \/ RunRegister \/ RunAcceptFails \/ RunShutdown
    \/ CancelContext
    \/ \E a \in Attempts : SessionLost(a) \/ CloseOnCancel(a)
    \/ \E sn \in Attempts : SendHeartbeats(sn) \/ SenderDone(sn)
BeatSpec == BeatInit /\ [][BeatNext]_vars

\* the heartbeat sender of a registered agent and the control loop of the
\* edge, both scheduled, on a session that may end
FlowSpecInit ==
    /\ EdgeInit /\ apiKeys = {}
    /\ SpliceIdle
    /\ QuietAgent
    /\ AcceptIdle /\ StreamIdle /\ HandlersIdle /\ ReconnIdle /\ BeatIdle
    /\ FlowInit
FlowNext ==
    \/ TickerFires \/ SenderSends \/ ControlLoopReads \/ ControlLoopAcks
    \/ FlowSessionEnds
FlowSpec ==
    /\ FlowSpecInit
    /\ [][FlowNext]_vars
    /\ WF_vars(TickerFires)
    /\ WF_vars(SenderSends)
    /\ WF_vars(ControlLoopReads)
    /\ WF_vars(ControlLoopAcks)

\* ------------------------------------------------------------ properties
\* the connection has a registry entry
InRegistry(c) == \E s \in DOMAIN clients : clients[s] = c

\* the handler has inserted its tunnel and has not yet run removeClient
HoldStates == {"send", "loop", "ack", "logged", "deferClose", "deferRemove", "sendFailed"}
Holds(c) == hpc[c] \in HoldStates

\* the subdomain of each host of Hosts, written out
HostA == <<"a", ".", "t", ":", "8">>
HostG == <<"0", "0", "c", "0", "f", "f", "e", "e", ".", "t">>
HostNoSub == <<"t", ":", "8">>
ExpectedSubdomain(h) ==
    CASE h = HostA -> SubA
      [] h = HostG -> SubG
      [] OTHER -> EmptyStr

\* C1: for any interleaving of registrations and removals, no two handlers
\* hold a tunnel for the same subdomain, the registry entry of a subdomain is
\* the one handler that holds it, and at most one handler is between its
\* existence check and its insert.
C1_RegistryUnique ==
    /\ \A c1, c2 \in Conns :
          (c1 # c2 /\ Holds(c1) /\ Holds(c2)) => sub[c1] # sub[c2]
    /\ \A c \in Conns : Holds(c) => clients[sub[c]] = c
    /\ \A s \in DOMAIN clients :
          clients[s] # NoClient => (Holds(clients[s]) /\ sub[clients[s]] = s)
    /\ \A c1, c2 \in Conns :
          (c1 # c2 /\ hpc[c1] \in {"check", "insert"}) => hpc[c2] \notin {"check", "insert"}
    /\ \A c1, c2 \in Conns :
          (c1 # c2 /\ reply[c1] = TypeRegistered /\ delivered[c1] /\ Holds(c1)
                   /\ reply[c2] = TypeRegistered /\ Holds(c2)) => sub[c1] # sub[c2]

\* two agents asked for the same subdomain: one is registered and in its
\* control loop, the other was answered "already in use"
C1_Witness ==
    \E c1, c2 \in Conns :
        /\ sub[c1] = sub[c2]
        /\ hpc[c1] = "loop" /\ reply[c1] = TypeRegistered /\ delivered[c1]
        /\ reply[c2] = ErrInUse /\ hpc[c2] = "done"

\* C2: a request is delivered (its data stream opened, its bytes written)
\* only on the session of a tunnel registered under the subdomain of its Host.
C2_RoutedToOwnTunnel ==
    \A r \in Reqs :
        /\ req[r].streamOn # NoClient =>
              /\ sub[req[r].streamOn] = ExpectedSubdomain(req[r].host)
              /\ (hpc[req[r].streamOn] = "send" \/ reply[req[r].streamOn] = TypeRegistered)
        /\ req[r].client # NoClient => sub[req[r].client] = ExpectedSubdomain(req[r].host)
        /\ req[r].sent => req[r].streamOn # NoClient

\* two requests for different hosts are being spliced at once, each on the
\* session of its own tunnel
C2_Witness ==
    /\ req[1].pc = "splice" /\ req[2].pc = "splice"
    /\ req[1].host = HostA /\ req[2].host = HostG
    /\ req[1].streamOn # req[2].streamOn
    /\ req[1].sent /\ req[2].sent

\* what one step of ServeHTTP may do to request r: 400 exactly for a Host
\* without subdomain, 404 exactly when the subdomain has no registry entry at
\* the lookup, 502 exactly when the session of the tunnel found is not open at
\* OpenStream; with any of the three the connection is not hijacked, no stream
\* exists and nothing is sent
C3_StepOf(r) ==
    LET a == req[r]
        b == req'[r]
    IN  /\ (a.pc = "new" /\ b.pc # "new") =>
              /\ (b.status = StatusBadRequest) <=> (b.host = HostNoSub)
              /\ (b.status = StatusNotFound) <=>
                    (b.host # HostNoSub /\ clients[ExpectedSubdomain(b.host)] = NoClient)
              /\ (b.pc = "open") <=>
                    (b.host # HostNoSub /\ clients[ExpectedSubdomain(b.host)] # NoClient)
              /\ b.pc \in {"open", "done"}
        /\ (a.pc = "open" /\ b.pc # "open") =>
              ((b.status = StatusBadGateway) <=> (sess[a.client] # "open"))
        /\ b.status \in {StatusBadRequest, StatusNotFound, StatusBadGateway} =>
              /\ b.pc = "done"
              /\ b.conn = "http"
              /\ b.stream = "none"
              /\ b.streamOn = NoClient
              /\ ~b.sent

\* C3: ServeHTTP answers 400 when the Host has no subdomain, 404 when the
\* subdomain has no registry entry and 502 when OpenStream fails, and in each
\* of the three the connection is not hijacked and no byte reaches an agent.
C3_ErrorStatuses == [][\A r \in Reqs : C3_StepOf(r)]_vars

\* one request ended with 502 and the other with 400
C3_Witness ==
    \E r1, r2 \in Reqs :
        /\ req[r1].status = StatusBadGateway /\ req[r1].conn = "http"
        /\ req[r2].status = StatusBadRequest

\* C4: with keys configured a register is admitted iff its token is one of
\* them, and is otherwise answered "invalid or missing API key", its session
\* closed and no registry entry created; without keys every register is
\* admitted.
C4_AuthGate ==
    \A c \in Conns :
        /\ (token[c] # NoToken /\ apiKeys # {} /\ token[c] \notin apiKeys) =>
              /\ reply[c] = ErrAuth
              /\ hpc[c] = "done"
              /\ sess[c] = "closed"
              /\ sub[c] = EmptyStr
              /\ ~InRegistry(c)
        /\ (token[c] # NoToken /\ (apiKeys = {} \/ token[c] \in apiKeys)) =>
              /\ reply[c] # ErrAuth
              /\ sub[c] # EmptyStr
        /\ reply[c] = ErrAuth =>
              (apiKeys # {} /\ token[c] # NoToken /\ token[c] \notin apiKeys)

\* under the keys {k1, k2}: one agent is registered with k2, the other was
\* rejected for its missing token
C4_Witness ==
    /\ apiKeys = {"k1", "k2"}
    /\ \E c1, c2 \in Conns :
          /\ token[c1] = "k2" /\ hpc[c1] = "loop" /\ InRegistry(c1)
          /\ token[c2] = "" /\ reply[c2] = ErrAuth

\* what one step may do around a duplicate register of handler c: it goes to
\* the reject branch, is answered "already in use" and its session closed;
\* the registry and every other session stay as they are
C5_StepOf(c) ==
    /\ (hpc[c] = "check" /\ hpc'[c] # "check" /\ clients[sub[c]] # NoClient) =>
          /\ hpc'[c] = "reject"
          /\ clients' = clients
          /\ sess' = sess
    /\ (hpc[c] = "reject" /\ hpc'[c] # "reject") =>
          /\ reply'[c] = ErrInUse
          /\ sess'[c] = "closed"
          /\ hpc'[c] = "done"
          /\ clients' = clients
          /\ \A d \in Conns \ {c} : sess'[d] = sess[d] /\ hpc'[d] = hpc[d]
    /\ reply'[c] = ErrInUse => ~(\E s \in DOMAIN clients : clients'[s] = c)

\* C5: a register for a subdomain the registry holds is answered "already in
\* use" and its session closed; the registry entry and the session of the
\* holder are left unchanged, and the rejected handler never gets an entry.
C5_DuplicateRejected == [][\A c \in Conns : C5_StepOf(c)]_vars

\* the duplicate was rejected, and the tunnel that holds the subdomain is in
\* its control loop with a request being spliced on its session
C5_Witness ==
    \E c1, c2 \in Conns : \E r \in Reqs :
        /\ reply[c2] = ErrInUse /\ sess[c2] = "closed"
        /\ sub[c1] = sub[c2] /\ hpc[c1] = "loop" /\ sess[c1] = "open"
        /\ clients[sub[c1]] = c1
        /\ req[r].pc = "splice" /\ req[r].streamOn = c1 /\ req[r].sent

\* what one step may do around the first read of handler c: it leaves the
\* read either with a register message or with an error reply, its session
\* closed and the registry untouched
C6_StepOf(c) ==
    /\ (hpc[c] = "read" /\ hpc'[c] # "read" /\ token'[c] = NoToken) =>
          /\ reply'[c] \in {ErrRead, ErrExpected}
          /\ sess'[c] = "closed"
          /\ hpc'[c] = "done"
          /\ clients' = clients
    /\ (hpc[c] = "read" /\ hpc'[c] = "lock") => token'[c] # NoToken
    /\ token'[c] = NoToken => ~(\E s \in DOMAIN clients : clients'[s] = c)
    /\ (reply'[c] \in {ErrRead, ErrExpected}) =>
          (token'[c] = NoToken /\ hpc'[c] = "done" /\ sess'[c] = "closed")

\* C6: the first message of a control connection must be register; otherwise
\* (or when it cannot be read) the edge replies with an error, closes the
\* session, and the connection never has a registry entry.
C6_FirstMessageRegister == [][\A c \in Conns : C6_StepOf(c)]_vars

\* one connection sent a heartbeat first and was answered "expected register",
\* the other sent an undecodable first message
C6_Witness ==
    \E c1, c2 \in Conns :
        /\ reply[c1] = ErrExpected /\ delivered[c1] /\ sess[c1] = "closed"
        /\ reply[c2] = ErrRead /\ delivered[c2] /\ sess[c2] = "closed"
        /\ ~InRegistry(c1) /\ ~InRegistry(c2)

\* the handler has inserted its tunnel (it may have removed it since)
WasInserted(c) ==
    \/ hpc[c] \in HoldStates \cup {"sendFailedClose"}
    \/ hpc[c] = "done" /\ reply[c] = TypeRegistered

\* C7, as claimed: a tunnel is in the registry iff its session is open.
C7_EntryIffOpen ==
    \A c \in Conns : InRegistry(c) <=> (WasInserted(c) /\ sess[c] = "open")

\* C7, amended: a session that is registered and open has its registry entry;
\* an entry belongs to a handler that has yet to run removeClient, also when
\* the session behind it is already closed; a handler that has returned left
\* its session closed and no entry.
C7_EntryWhileHandlerHolds ==
    \A c \in Conns :
        /\ (WasInserted(c) /\ sess[c] = "open") => InRegistry(c)
        /\ InRegistry(c) => (Holds(c) /\ clients[sub[c]] = c)
        /\ hpc[c] = "done" => (sess[c] = "closed" /\ ~InRegistry(c))
        /\ hpc[c] = "sendFailedClose" => ~InRegistry(c)

\* the agent closed the session of a tunnel in its control loop: the entry is
\* still there, the session is not open
C7_Witness ==
    \E c \in Conns : hpc[c] = "loop" /\ InRegistry(c) /\ sess[c] = "closed"

\* C8: once the session of a registered tunnel is closed, or its control loop
\* has left on a read error, the handler eventually has the session closed,
\* the entry removed and has returned.
C8_ClosedEventuallyRemoved ==
    \A c \in Conns :
        ((InRegistry(c) /\ sess[c] = "closed") \/ hpc[c] = "deferClose")
            ~> (~InRegistry(c) /\ sess[c] = "closed" /\ hpc[c] = "done")

\* a tunnel was registered and removed after its session closed, and another
\* connection now holds the same subdomain
C8_Witness ==
    \E c1, c2 \in Conns :
        /\ sub[c1] = sub[c2]
        /\ hpc[c1] = "done" /\ reply[c1] = TypeRegistered /\ delivered[c1]
        /\ hpc[c2] = "loop" /\ clients[sub[c2]] = c2 /\ sess[c2] = "open"

\* the last heartbeat of the tunnel is older than HeartbeatTimeout
Stale(c) == (now - lastHeartbeat[c]) * HeartbeatInterval > HeartbeatTimeout

\* the registered tunnels with an open session and a stale heartbeat
StaleTunnels == {c \in Conns : InRegistry(c) /\ sess[c] = "open" /\ Stale(c)}

\* C9: a registered tunnel whose last heartbeat is older than
\* HeartbeatTimeout, its session open, is eventually removed from the registry.
C9_StaleEventuallyEvicted ==
    \A c \in Conns : (c \in StaleTunnels) ~> ~InRegistry(c)

\* C10: Bidirectional goes past wg.Wait only when both copy directions have
\* finished, closes no connection before that, and has called Close on both
\* connections when it returns, however the directions ended.
C10_ClosedOnReturn ==
    /\ mpc # "wait" => \A d \in Ends : gpc[d] = "done"
    /\ \A i \in Ends : closed[i] => \A d \in Ends : gpc[d] = "done"
    /\ mpc \in {"return", "returned"} => (closed[1] /\ closed[2])
    /\ result # Pending => (mpc = "returned" /\ closed[1] /\ closed[2])

\* Bidirectional has returned with both connections closed; one direction
\* ended at end-of-stream after copying a byte, the other on a read error
C10_Witness ==
    /\ mpc = "returned" /\ result = ErrReset
    /\ closed[1] /\ closed[2]
    /\ pend[1] = ReadEOF /\ cerr[1] = Nil /\ Len(pout[2]) > 0
    /\ cerr[2] = ErrReset

\* the direction reading connection d has seen end-of-stream: io.Copy has
\* returned nil
SawEOF(d) == gpc[d] \in {"closeWrite", "done"} /\ cerr[d] = Nil

IsPrefix(s, t) == Len(s) <= Len(t) /\ s = SubSeq(t, 1, Len(s))

\* C12: what the splice has written to an endpoint is always a prefix of what
\* was written into the opposing one, and is all of it once the direction has
\* seen end-of-stream, whatever the other direction does.
C12_BytesPreserved ==
    \A i \in Ends :
        /\ IsPrefix(pout[Other(i)], pin[i])
        /\ SawEOF(i) => (pend[i] = ReadEOF /\ pout[Other(i)] = pin[i])
        /\ (cw[Other(i)] \/ closed[Other(i)]) => gpc[i] = "done"

\* MaxBytes bytes went from connection 1 to connection 2 before its
\* end-of-stream, while bytes also went the other way and that direction
\* ended with an error
C12_Witness ==
    /\ SawEOF(1) /\ gpc[1] = "done" /\ cw[2]
    /\ Len(pin[1]) = MaxBytes /\ pout[2] = pin[1]
    /\ Len(pout[1]) > 0 /\ cerr[2] # Nil

\* the error is neither nil nor io.EOF nor a wrapper of io.EOF
Meaningful(e) == e # Nil /\ \A i \in 1..Len(e) : e[i] # "EOF"

\* the first meaningful error of the list, nil if there is none
FirstMeaningful(l) ==
    IF \E i \in 1..Len(l) : Meaningful(l[i])
    THEN l[CHOOSE i \in 1..Len(l) :
               Meaningful(l[i]) /\ \A j \in 1..(i - 1) : ~Meaningful(l[j])]
    ELSE Nil

\* C13: firstError returns the first argument that is non-nil and neither is
\* nor wraps io.EOF, and nil when there is none or the list is empty; what
\* Bidirectional returns is that of err1, err2.
C13_FirstError ==
    /\ ferr # Pending => ferr = FirstMeaningful(callErrs)
    /\ result # Pending => result = FirstMeaningful(<<cerr[1], cerr[2]>>)

\* firstError skipped a nil and a wrapped io.EOF and returned the third
\* argument
C13_Witness ==
    /\ callErrs = <<Nil, ErrWrappedEOF, ErrWrite>>
    /\ ferr = ErrWrite

\* d = min(initial * multiplier^(n-1), max_delay) as the fraction DNum(n) / DDen(n)
DDen(n) == Pow(MulDen, n - 1)
DNum(n) ==
    LET x == config.InitialDelay * Pow(config.Multiplier, n - 1)
    IN  IF x > config.MaxDelay * DDen(n) THEN config.MaxDelay * DDen(n) ELSE x

\* d(1 - j) and d(1 + j), as numerators over DDen(n) * JitterDen
LowNum(n) ==
    IF config.Jitter >= JitterDen THEN 0 ELSE DNum(n) * (JitterDen - config.Jitter)
HighNum(n) == DNum(n) * (JitterDen + config.Jitter)

\* C20, as claimed: the n-th call since construction or Reset leaves attempt
\* at n and returns a delay in [max(0, d(1-j)), d(1+j)], exactly d when j = 0.
C20_DelayInRange ==
    /\ attempt = calls
    /\ calls > 0 =>
          /\ delay * DDen(calls) * JitterDen >= LowNum(calls)
          /\ delay * DDen(calls) * JitterDen <= HighNum(calls)
          /\ config.Jitter = 0 => delay * DDen(calls) = DNum(calls)

\* C20, amended: the n-th call since construction or Reset leaves attempt at n
\* and returns a whole number of nanoseconds that is the truncation of a
\* value in [max(0, d(1-j)), d(1+j)]: it is above max(0, d(1-j)) - 1ns and at
\* most d(1+j), and with j = 0 it is d with its fraction cut off.
C20_DelayInRangeTruncated ==
    /\ attempt = calls
    /\ calls > 0 =>
          /\ delay >= 0
          /\ (delay + 1) * DDen(calls) * JitterDen > LowNum(calls)
          /\ delay * DDen(calls) * JitterDen <= HighNum(calls)
          /\ config.Jitter = 0 =>
                /\ delay * DDen(calls) <= DNum(calls)
                /\ (delay + 1) * DDen(calls) > DNum(calls)
          /\ (config.Jitter = 0 /\ config.InitialDelay = 1 /\ config.Multiplier = 4) =>
                delay = <<1, 2, 4, 8, 10, 10, 10>>[calls]

\* the sixth delay of the schedule 1, 2, 4, 8, 10, 10 has been returned
C20_Witness ==
    /\ config.Jitter = 0 /\ config.InitialDelay = 1 /\ config.Multiplier = 4
    /\ calls = 6 /\ attempt = 6 /\ delay = 10
\* ------------------------------------------------------------- the agent
\* the last Run ended on an error message of the edge
RegistrationFailed(e) ==
    \E m \in {ErrAuth, ErrInUse} : e = ErrorfS("registration failed: ", m)

\* C14: when the edge answers the register message with an error message,
\* the attempt fails permanently: RunWithReconnect returns that error, with
\* the edge's text in it, and neither sleeps nor tries again
C14_RegistrationErrorPermanent ==
    (reconnect /\ RegistrationFailed(runErr)) =>
        /\ cpc \in {"ran", "decide", "returned"}
        /\ cpc = "returned" => ret = runErr

\* C15: once the agent has read a registered message, every later register
\* message of the same agent asks for the subdomain the edge assigned, not
\* for the one first asked for; before that it asks for the configured one
C15_ReconnectKeepsSubdomain ==
    [][(cpc = "register" /\ cpc' = "read") =>
          sentSubdomain' = (IF lastAssigned # EmptyStr THEN lastAssigned ELSE subdomain)]_vars

\* the agent asked for no subdomain, was assigned one, lost the session and
\* has sent the register message of its second attempt
C15_Witness ==
    /\ cpc = "read"
    /\ dials = 2
    /\ subdomain = EmptyStr
    /\ lastAssigned = SubG
    /\ sentSubdomain = SubG

\* reconnection is enabled, retries are limited and the edge does not listen
AllAttemptsFail == reconnect /\ ~listening /\ config.MaxRetries > 0

\* C16 as stated: with max_retries = N > 0 and every attempt failing, no
\* more than N connection attempts are made
C16_AtMostNAttempts ==
    AllAttemptsFail => dials <= config.MaxRetries

\* C16: with max_retries = N > 0 and every attempt failing, RunWithReconnect
\* terminates; unless cancelled its result is MaxRetriesExceeded, returned
\* after the first attempt and N retries have failed, N + 1 connection
\* attempts, and never more
C16_MaxRetriesExceeded ==
    /\ [](AllAttemptsFail => dials <= config.MaxRetries + 1)
    /\ []((AllAttemptsFail /\ cpc = "returned" /\ ~ctxDone) => ret = ErrMaxRetriesExceeded)
    /\ []((AllAttemptsFail /\ ret = ErrMaxRetriesExceeded) =>
            (dials = config.MaxRetries + 1 /\ attempt = config.MaxRetries))
    /\ AllAttemptsFail ~> cpc = "returned"

\* max_retries = 3: MaxRetriesExceeded after the fourth failed attempt
C16_Witness ==
    /\ AllAttemptsFail
    /\ config.MaxRetries = 3
    /\ ~ctxDone
    /\ cpc = "returned"
    /\ ret = ErrMaxRetriesExceeded
    /\ dials = 4

\* the error Run returns when its accept loop fails without cancellation
ErrSessionClosed == ErrorfW("session closed", ErrSessionShutdown)

\* C17 as a step: the accept loop is left only when AcceptStream fails on a
\* closed session, and Run then returns Shutdown if the context is cancelled
\* and otherwise the wrapped error of AcceptStream, which is not permanent
C17_AcceptLoopStep ==
    /\ (cpc = "accept" /\ cpc' # "accept") => (session = "closed" /\ cpc' = "acceptErr")
    /\ (cpc = "acceptErr" /\ cpc' # "acceptErr") =>
          /\ cpc' = "ran"
          /\ session' = "closed"
          /\ ctxDone => runErr' = ErrShutdown
          /\ ~ctxDone => (runErr' = ErrSessionClosed
                            /\ ErrSessionShutdown.chain \subseteq runErr'.chain
                            /\ ~isPermanentError(runErr'))

\* C17: when the context is cancelled while the agent is registered and in
\* its accept loop, the session is closed and Run returns Shutdown; when the
\* accept loop fails without cancellation, Run returns the underlying error,
\* which is not permanent
C17_AcceptLoopEnds ==
    /\ [][C17_AcceptLoopStep]_vars
    /\ (ctxDone /\ cpc = "accept") ~> (session = "closed" /\ runErr = ErrShutdown)

\* a registered agent that had accepted a stream was cancelled, and Run
\* returned Shutdown out of the accept loop
C17_Witness ==
    /\ cpc = "ran"
    /\ ctxDone
    /\ tunnelURL # EmptyStr
    /\ streams = 1
    /\ session = "closed"
    /\ runErr = ErrShutdown

\* C18 as stated: whenever the context was cancelled during a reconnecting
\* RunWithReconnect, its result is Shutdown
C18_CancelReturnsShutdown ==
    (reconnect /\ ctxDone /\ cpc = "returned") => ret = ErrShutdown

\* the select of RunWithReconnect takes its ctx.Done() case
SleepInterrupted == cpc = "select" /\ ctxDone /\ cpc' # "select" /\ cpc' # "top"

\* C18: with reconnect enabled, once the context is cancelled RunWithReconnect
\* eventually returns; its result is Shutdown, or MaxRetriesExceeded when the
\* attempt under way fails before registering with the retries used up; a
\* sleep interrupted by cancellation returns Shutdown at once, and nothing
\* is dialled after the return
C18_CancelEventuallyReturns ==
    /\ (reconnect /\ ctxDone) ~> cpc = "returned"
    /\ []((reconnect /\ ctxDone /\ cpc = "returned") =>
            \/ ret = ErrShutdown
            \/ ret = ErrMaxRetriesExceeded /\ MaxRetriesReached /\ tunnelURL = EmptyStr)
    /\ [][SleepInterrupted =>
            (cpc' = "returned" /\ ret' = ErrShutdown /\ dials' = dials)]_vars
    /\ [][cpc = "returned" => (cpc' = "returned" /\ dials' = dials /\ ret' = ret)]_vars

\* a backoff sleep was interrupted: the last Run had failed with another
\* error and RunWithReconnect returned Shutdown
C18_Witness ==
    /\ reconnect
    /\ ctxDone
    /\ cpc = "returned"
    /\ ret = ErrShutdown
    /\ runErr = ErrSessionClosed
    /\ dials = 2

\* C19: with reconnect disabled RunWithReconnect makes one connection
\* attempt and returns what that Run returned; it never sleeps, never takes a
\* delay, never dials again and never returns MaxRetriesExceeded
C19_NoReconnectSingleAttempt ==
    ~reconnect =>
        /\ dials <= 1
        /\ cpc \notin {"top", "decide", "select"}
        /\ attempt = 0 /\ calls = 0 /\ delay = 0
        /\ ~timerFired
        /\ cpc \in {"ran", "returned"} => dials = 1
        /\ cpc = "returned" => (ret = runErr /\ ret # ErrMaxRetriesExceeded)
        /\ cpc # "returned" => ret = NotReturned

\* without reconnection a registered agent lost its session and
\* RunWithReconnect returned the error of its only Run
C19_Witness ==
    /\ ~reconnect
    /\ cpc = "returned"
    /\ dials = 1
    /\ tunnelURL # EmptyStr
    /\ ret = ErrSessionClosed

\* C21: MaxRetriesReached is false after any number of NextDelay calls when
\* MaxRetries is 0; when MaxRetries = N > 0 it is false while fewer than N
\* NextDelay calls were made since the last Reset and true from the N-th on
C21_MaxRetriesReached ==
    /\ config.MaxRetries = 0 => ~MaxRetriesReached
    /\ config.MaxRetries > 0 => (MaxRetriesReached <=> calls >= config.MaxRetries)

\* the limit of 2 retries is reached by the second call and stays reached
C21_Witness ==
    /\ config.MaxRetries = 2
    /\ calls = 3
    /\ MaxRetriesReached

PermanentSentinelErrs ==
    {ErrShutdown, ErrPermanentFailure, ErrSubdomainTaken, ErrMaxRetriesExceeded}

\* C22: isPermanentError is true for each of the four permanent sentinels
\* and for a sentinel wrapped to any depth, as it is for the sentinel itself;
\* it is false for nil and for an error with no sentinel in its chain
C22_PermanentThroughWrapping ==
    /\ \A e \in PermanentSentinelErrs : isPermanentError(e)
    /\ ~isPermanentError(NoErr)
    /\ isPerm # <<>> =>
          /\ (pbase \in PermanentSentinelErrs /\ pkeeps) => isPerm = <<TRUE>>
          /\ (pbase \notin PermanentSentinelErrs \/ ~pkeeps) => isPerm = <<FALSE>>
          /\ perr = NoErr => isPerm = <<FALSE>>

\* SubdomainTaken wrapped MaxWrap times with %w is classified permanent
C22_Witness ==
    /\ pbase = ErrSubdomainTaken
    /\ pkeeps
    /\ WrapDepth = MaxWrap
    /\ isPerm = <<TRUE>>

\* ------------------------------------------------- the control-stream codec
\* C23 as stated: the messages read are the messages sent, payload for
\* payload, in the order sent
C23_RoundTrip ==
    clean => IsPrefix(got, sentMsgs)

\* a payload string as text: a byte that is not valid UTF-8 reads as U+FFFD
AsText(str) == IF str = BadUTF8 THEN Replaced ELSE str
MsgAsText(m) == [n \in DOMAIN m |-> AsText(m[n])]

\* C23: on one direction of a control stream written only by the Send*
\* operations, successive ReadMessage calls return the variants sent, in the
\* order sent, none lost, each payload field equal to the one sent when that
\* is valid UTF-8 and with its invalid bytes replaced by U+FFFD otherwise;
\* ReadMessage fails only when the stream has ended and is drained
C23_RoundTripAsText ==
    clean =>
        /\ Len(got) + Len(wire) = Len(sentMsgs)
        /\ \A i \in 1..Len(got) :
              /\ got[i] = MsgAsText(sentMsgs[i])
              /\ sentMsgs[i] = MsgAsText(sentMsgs[i]) => got[i] = sentMsgs[i]
        /\ rerr # NoErr => (wire = <<>> /\ wend # "open")

\* a register message without subdomain and an error message were sent and
\* read back in that order
C23_Witness ==
    /\ clean
    /\ sentMsgs = <<NewRegisterMessage("", "a"), NewErrorMessage("a")>>
    /\ got = sentMsgs

\* the kind of failure an error of ReadMessage tells
Class(e) ==
    IF e.text[1] = "unknown message type" THEN "unknown"
    ELSE IF "EOF" \in e.chain THEN "closed"
    ELSE IF e.chain \cap {"SyntaxError", "UnmarshalTypeError", "ErrUnexpectedEOF"} # {}
    THEN "malformed"
    ELSE "other"

\* the last ReadMessage decoded a JSON value whose type is one of the five
Recognised ==
    /\ derr = NoErr
    /\ lastVal.syntax = "ok"
    /\ ~UnmarshalFails(lastVal, {"type"})
    /\ TypeOf(lastVal) \in KnownTypes

Colons(h) == {i \in 1..Len(h) : h[i] = ":"}
Dots(h) == {i \in 1..Len(h) : h[i] = "."}
\* the host without its port: cut at the colon of a host with exactly one
HostPart(h) ==
    IF Cardinality(Colons(h)) = 1
    THEN SubSeq(h, 1, (CHOOSE i \in Colons(h) : TRUE) - 1)
    ELSE h
LeftmostLabel(h) ==
    SubSeq(h, 1, (CHOOSE i \in Dots(h) : \A j \in Dots(h) : i <= j) - 1)

\* C25: extractSubdomain cuts a port off only a host with exactly one colon,
\* then returns the leftmost dot-separated label if what remains has at
\* least two labels, and the empty string otherwise, the empty host included
C25_ExtractSubdomain ==
    /\ extractSubdomain(EmptyStr) = EmptyStr
    /\ xsub # Pending =>
          xsub = (IF Dots(HostPart(xhost)) # {}
                  THEN LeftmostLabel(HostPart(xhost))
                  ELSE EmptyStr)

\* a.a:a gives a; the witness is the host with a port
C25_Witness ==
    /\ xhost = <<"a", ".", "a", ":", "a">>
    /\ xsub = <<"a">>

\* -------------------------------------------------------------- hostPolicy
\* C26: hostPolicy accepts a host iff the subdomain extracted from it is a
\* key of the registry at the moment of the call; hosts without subdomain
\* and subdomains without a tunnel in the registry are rejected
C26_HostPolicyIffRegistered ==
    [][policy' # policy =>
          (policy'.ok <=> \E s \in Subdomains :
                              /\ clients[s] # NoClient
                              /\ Dots(HostPart(policy'.host)) # {}
                              /\ s = LeftmostLabel(HostPart(policy'.host)))]_vars

\* the host of a registered tunnel was accepted
C26_Witness ==
    /\ policy.ok
    /\ policy.host = SubA \o <<".", "t", ":", "8">>
    /\ clients[SubA] # NoClient

\* --------------------------------------------------------- the control loop
\* C27, the steps of the control loop of connection c: a heartbeat read
\* stores the time and is followed by one SendHeartbeatAck before the next
\* read; after another message the handler only logs; the loop is left
\* through the two deferred calls only
C27_LoopStep(c) ==
    /\ (hpc[c] = "loop" /\ hpc'[c] # "loop") =>
          /\ hpc'[c] \in {"ack", "logged", "deferClose"}
          /\ hpc'[c] = "ack" => (sess[c] = "open" /\ lastHeartbeat'[c] = now)
          /\ hpc'[c] # "ack" => lastHeartbeat'[c] = lastHeartbeat[c]
          /\ hpc'[c] = "logged" => sess[c] = "open"
          /\ clients' = clients /\ sess' = sess
    /\ (hpc[c] = "ack" /\ hpc'[c] # "ack") =>
          /\ hpc'[c] \in {"loop", "deferClose"}
          /\ hpc'[c] = "loop" <=> sess[c] = "open"
          /\ lastHeartbeat' = lastHeartbeat /\ clients' = clients /\ sess' = sess
    /\ (hpc[c] = "logged" /\ hpc'[c] # "logged") =>
          /\ hpc'[c] = "loop"
          /\ lastHeartbeat' = lastHeartbeat /\ clients' = clients /\ sess' = sess
    /\ hpc[c] \in {"loop", "ack", "logged"} => clients[sub[c]] = c

\* C27: in the control loop of a live tunnel every heartbeat read updates the
\* tunnel's lastHeartbeat and is answered by one heartbeat_ack before the
\* next message is read; any other message is logged and leaves the tunnel
\* in the registry with its session as it was; when the loop ends on a read
\* error the session is closed and the tunnel removed
C27_ControlLoop ==
    /\ [][\A c \in Conns : C27_LoopStep(c)]_vars
    /\ \A c \in Conns :
          (hpc[c] = "deferClose") ~>
              (hpc[c] = "done" /\ sess[c] = "closed" /\ Lookup(sub[c]) # c)

\* a heartbeat read two ticks after registration has updated lastHeartbeat
\* and its acknowledgement is about to be sent
C27_Witness ==
    \E c \in Conns :
        /\ hpc[c] = "ack"
        /\ now = 2
        /\ lastHeartbeat[c] = 2
        /\ clients[sub[c]] = c


\* the copy of direction d is running
Copying(d) == gpc[d] \in {"read", "write"}

\* the source of direction d has ended, or has failed
SourceOver(d) ==
    \/ gpc[d] = "read" /\ pend[d] = ReadEOF /\ rpos[d] = Len(pin[d])
    \/ gpc[d] = "read" /\ pend[d] \in ReadErrs

\* the write of direction d to its destination fails
OwnWriteFails(d) == gpc[d] = "write" /\ wfail[Other(d)]

\* after this step direction d has ended with a write error
EndedByWriteError(d) == gpc'[d] \in {"closeWrite", "done"} /\ cerr'[d] = ErrWrite

\* the error stays recorded, no endpoint is closed and the splice stays in
\* wg.Wait while a copy is running
C28_Contained(d) ==
    EndedByWriteError(d) =>
        /\ cerr[d] = ErrWrite => cerr'[d] = cerr[d]
        /\ Copying(Other(d)) => closed' = closed /\ ~closed[1] /\ ~closed[2] /\ mpc' = "wait"
        /\ mpc # mpc' /\ mpc' # "close1" => \A e \in Ends : gpc[e] = "done"

\* C28 as stated: after a write error has ended one direction, the opposite
\* direction stops copying only when its own source has ended or failed, and
\* the endpoints are closed only after that.
C28_OppositeEndsOnSource ==
    [][\A d \in Ends :
          /\ C28_Contained(d)
          /\ EndedByWriteError(d) /\ Copying(Other(d)) /\ ~Copying(Other(d))'
                => SourceOver(Other(d))]_vars

\* C28: a write error that ends one copy direction is recorded and neither
\* stops the opposite copy nor closes an endpoint; the opposite direction
\* stops copying only when its own copy returns, because its source has ended
\* or failed or because its own write has failed, and the splice closes the
\* endpoints and returns only after both directions have ended.
C28_OppositeEndsOnItsOwn ==
    [][\A d \in Ends :
          /\ C28_Contained(d)
          /\ EndedByWriteError(d) /\ Copying(Other(d)) /\ ~Copying(Other(d))'
                => SourceOver(Other(d)) \/ OwnWriteFails(Other(d))]_vars

\* one direction has ended with a write error and the opposite direction has
\* read a chunk that it is about to write, with both endpoints open
C28_Witness ==
    \E d \in Ends :
        /\ gpc[d] = "done"
        /\ cerr[d] = ErrWrite
        /\ gpc[Other(d)] = "write"
        /\ pout[d] # <<>>
        /\ ~closed[1] /\ ~closed[2]
        /\ mpc = "wait"


\* the attempt that has just returned had read a registered reply
Registered == tunnelURL # EmptyStr

\* the counter is reset after a registered attempt and kept after any other,
\* and nothing else sets it back
ResetIffRegistered ==
    /\ cpc = "ran" /\ cpc' = "decide" => attempt' = (IF Registered THEN 0 ELSE attempt)
    /\ attempt' < attempt => cpc = "ran" /\ Registered /\ attempt' = 0

\* giving up follows max_retries unregistered failures in a row
GivesUpAfterFailures ==
    ret' = ErrMaxRetriesExceeded /\ ret # ErrMaxRetriesExceeded =>
        /\ config.MaxRetries > 0
        /\ unregistered >= config.MaxRetries
        /\ ~Registered

\* the loop takes the delay that follows a registered attempt
DelayAfterLostSession == cpc = "decide" /\ cpc' = "select" /\ Registered

GrammarChars ==
    {"a", "b", "c", "d", "e", "f", "g", "h", "i", "j", "k", "l", "m", "n", "o", "p", "q",
     "r", "s", "t", "u", "v", "w", "x", "y", "z",
     "0", "1", "2", "3", "4", "5", "6", "7", "8", "9", "-"}

InGrammar(sd) ==
    /\ Len(sd) \in 1..63
    /\ \A i \in 1..Len(sd) : sd[i] \in GrammarChars

HexChars ==
    {"0", "1", "2", "3", "4", "5", "6", "7", "8", "9", "a", "b", "c", "d", "e", "f"}

\* C30: every subdomain that is a key of the registry satisfies the subdomain
\* grammar (a provided subdomain outside the grammar is never inserted), and
\* a generated subdomain is 8 hexadecimal characters.
C30_RegistryKeysInGrammar ==
    /\ \A s \in Subdomains : clients[s] # NoClient => InGrammar(s)
    /\ \A g \in generateSubdomain : Len(g) = 8 /\ \A i \in 1..8 : g[i] \in HexChars


\* while the listener is open the loop goes on after an Accept error
AcceptContinues ==
    [][apc = "failed" /\ listener = "open" /\ apc' # apc => apc' = "accept"]_vars

\* C31: the control accept loop continues after a per-accept error while the
\* listener is open, and once the listener has been closed
\* acceptTunnelClients eventually returns instead of calling Accept again.
C31_AcceptLoopExits ==
    /\ AcceptContinues
    /\ (listener = "closed") ~> (apc = "returned")


\* C32: the stream handler delivers to the local service exactly the bytes
\* the edge wrote on the data stream, in order: what has been delivered is
\* always the beginning of those bytes, first the request line, then what was
\* buffered behind it, then the rest of the raw stream; when the handler ends
\* without a failure all of them have been delivered.
C32_StreamDelivered ==
    /\ localIn = SubSeq(sdata, 1, Len(localIn))
    /\ Len(localIn) <= Len(sdata)
    /\ spc \in {"combine", "copy"} =>
          SubSeq(localIn, 1, Len(requestLine)) = requestLine
    /\ spc \in {"dial", "write", "combine", "copy"} =>
          \/ requestLine # <<>> /\ requestLine[Len(requestLine)] = LF
                /\ IndexLF(requestLine) = Len(requestLine)
          \/ IndexLF(sdata) = 0 /\ requestLine = sdata
    /\ spc = "done" /\ sfail = "none" => localIn = sdata

\* the request line has been written; a byte read with it is still buffered
\* and more bytes are to come on the raw stream
C32_Witness ==
    /\ spc = "copy"
    /\ mr = "reader"
    /\ requestLine = <<LF>>
    /\ localIn = requestLine
    /\ bbuf = <<"b">>
    /\ spos < Len(sdata)


\* this step is the failure of the handler of stream st
HandlerFails(st) == hstreams[st].fail = "none" /\ hstreams'[st].fail # "none"

\* C33: a failure inside one agent stream handler (local dial, request-line
\* write, splice) closes that handler's stream and its local connection and
\* nothing else: the session, the control channel, the accept loop, the
\* handlers of the other streams, and the sessions and the registry of the
\* edge are as they were.
C33_FailureContained ==
    [][\A st \in Streams :
          HandlerFails(st) =>
              /\ hstreams'[st].streamClosed
              /\ hstreams'[st].loc # "open"
              /\ \A ot \in Streams \ {st} : hstreams'[ot] = hstreams[ot]
              /\ UNCHANGED <<session, cpc, streams, inbox, tunnelURL, runErr, ret>>
              /\ UNCHANGED <<clients, sess, hpc, sub>>]_vars

\* the handler of the first stream has failed in its splice while the second
\* stream is being spliced, the session is open and the loop is accepting
C33_Witness ==
    /\ hstreams[1].fail = "splice"
    /\ hstreams[1].streamClosed
    /\ hstreams[2].pc = "splice"
    /\ ~hstreams[2].streamClosed
    /\ session = "open"
    /\ cpc = "accept"
    /\ clients[SubG] = 1


\* the agent is registered on an open session under its first URL
RegisteredAgain == rpc = "accept" /\ rsess = "open" /\ rurl = url0 /\ entry = "current"

\* whenever the agent is registered its URL is the one of its first registration
SameURL == rpc = "accept" => rurl = url0 /\ URLOf(rassigned) = url0

Running == {sn \in Attempts : senders[sn] = "running"}

\* C35: at most one heartbeat sender is active at any time, a sender writes
\* only to the control stream of the attempt that started it, and a sender
\* closes only the session of the attempt that started it
C35_SenderConfined ==
    /\ Cardinality(Running) <= 1
    /\ \A w \in hbWrites : w[2] = w[1]
    /\ \A w \in hbCloses : w[2] = w[1]

\* the handler of connection c runs removeClient in this step
Removes(c) == hpc[c] \in {"sendFailed", "deferRemove"} /\ hpc'[c] # hpc[c]

\* C36: a registry entry is deleted only by the handler of the tunnel that
\* inserted it, in the cleanup of its failed SendRegistered or in the deferred
\* removeClient of its control loop; no step deletes the entry of another tunnel
C36_OnlyOwnerRemoves ==
    [][\A sd \in Subdomains :
          clients[sd] # NoClient /\ clients'[sd] # clients[sd]
             => clients'[sd] = NoClient /\ Removes(clients[sd])]_vars

\* a tunnel has been registered and removed by its handler, and the handler
\* that rejected a duplicate of its subdomain has returned
C36_Witness ==
    \E c, d \in Conns :
       /\ c # d
       /\ sub[c] = sub[d]
       /\ hpc[c] = "done" /\ reply[c] = TypeRegistered
       /\ hpc[d] = "done" /\ reply[d] = ErrInUse
       /\ clients[sub[c]] = NoClient

\* the agent of connection c has received registered and the handler of its
\* tunnel has not run removeClient
LiveTunnel(c) ==
    /\ delivered[c] /\ reply[c] = TypeRegistered
    /\ hpc[c] \in {"loop", "ack", "logged", "deferClose", "deferRemove"}

\* C37: while an agent has received registered and its tunnel has not been
\* removed the registry maps its subdomain to its session, and no request
\* for that subdomain is answered 404
C37_RegisteredIsRoutable ==
    /\ [](\A c \in Conns : LiveTunnel(c) => clients[sub[c]] = c)
    /\ [][\A r \in Reqs :
             req[r].status = 0 /\ req'[r].status = StatusNotFound
                => \A c \in Conns :
                      LiveTunnel(c) => sub[c] # extractSubdomain(req'[r].host)]_vars

\* a request has been routed to the tunnel of an agent that has received
\* registered, while another request was answered 404
C37_Witness ==
    \E c \in Conns, r, q \in Reqs :
       /\ LiveTunnel(c)
       /\ req[r].client = c /\ req[r].pc = "write"
       /\ req[q].status = StatusNotFound

\* C38: a request whose tunnel's session is closed when it opens its data
\* stream ends with 502 and nothing of it is sent, and a request opens its
\* stream only on the tunnel it looked up, whoever holds the subdomain by then
C38_RemovedTunnelGives502 ==
    /\ [](\A r \in Reqs : req[r].streamOn \in {NoClient, req[r].client})
    /\ [][\A r \in Reqs :
             req[r].pc = "open" /\ req'[r] # req[r] /\ sess[req[r].client] # "open"
                => /\ req'[r].status = StatusBadGateway
                   /\ req'[r].pc = "done"
                   /\ req'[r].streamOn = NoClient
                   /\ ~req'[r].sent]_vars

\* a request was answered 502 after its tunnel was removed, and another agent
\* holds the subdomain of the request with an open session
C38_Witness ==
    \E r \in Reqs, d \in Conns :
       /\ req[r].status = StatusBadGateway
       /\ req[r].client # d
       /\ hpc[req[r].client] = "done"
       /\ clients[extractSubdomain(req[r].host)] = d
       /\ LiveTunnel(d) /\ sess[d] = "open"

\* ServeHTTP has returned for the request
Returned(r) == req[r].pc = "done"

\* C39: when ServeHTTP has returned, the data stream it opened is closed and
\* the client connection it hijacked is closed, whether it returned after a
\* hijack that was unsupported or failed, after a failed write of the request
\* or after the splice
C39_StreamClosedOnReturn ==
    \A r \in Reqs :
       Returned(r) => /\ req[r].streamOn # NoClient => req[r].stream = "closed"
                      /\ req[r].conn # "hijacked"

\* one request returned after a failed hijack and another after a failed
\* write of the request, each with its stream closed
C39_Witness ==
    \E r, q \in Reqs :
       /\ Returned(r) /\ req[r].status = StatusInternalServerError
       /\ req[r].streamOn # NoClient /\ req[r].stream = "closed"
       /\ Returned(q) /\ req[q].conn = "closed" /\ ~req[q].sent
       /\ req[q].stream = "closed"

\* C40: while the session lives, every heartbeat the agent has sent is
\* eventually received by the control loop, the control loop leaves every
\* ack it sends and the sender leaves every heartbeat it sends
C40_HeartbeatsNeverStall ==
    /\ \A n \in 1..MaxBeats : (hbSent >= n) ~> (hbRecv >= n \/ fsess = "closed")
    /\ (lpc = "ack") ~> (lpc # "ack")
    /\ (tpc = "send") ~> (tpc # "send")

====
